---- MODULE Spec2Model ----
(***************************************************************************)
(* RowdyBottyPiper: the action runner (Action.run), the per-action and     *)
(* per-run metrics (ActionMetrics, BotMetrics) and the workflow driver     *)
(* (Bot.add_action, Bot.setup_driver, Bot.run, Bot.teardown_driver).       *)
(*                                                                         *)
(* One Bot is constructed, actions are added to it, and run() is invoked   *)
(* once.  The environment chooses what every execute() call does (returns  *)
(* True, returns False, raises an Exception with some message), whether    *)
(* the Chrome driver can be created, and whether driver.quit() raises.     *)
(* Logger calls are taken not to raise.                                    *)
(*                                                                         *)
(* SpecFault adds a fault raised in the body of Bot.run's loop, outside    *)
(* Action.run's own handler.  SpecCtx is the BotContext of one run: set,   *)
(* get and update on its dictionary.                                       *)
(*                                                                         *)
(* SpecWrites lets every execute() call write to the context of the run.   *)
(* SpecShared is bot/context.py's Context, several instances of it.        *)
(* SpecMod is rbp's ModuleRegistry.initialize.  SpecRate is the            *)
(* success_rate of BotMetrics.to_dict.  SpecCli is the run command of the  *)
(* command line around one Bot.run.  SpecLoad is the action registry and   *)
(* the two loaders (ActionLoader, YAMLBotLoader), one call per behaviour,  *)
(* with pydantic's validation taken from the fields the classes declare.   *)
(*                                                                         *)
(* SpecTerm is Spec under weak fairness of the steps of Bot.run.           *)
(* SpecRerun runs the action objects of a finished run again.  SpecLogin   *)
(* is one attempt of LoginAction / LogoutAction on the context.            *)
(* SpecRunner is the CLI with the runners' loaders in front of Bot.run.    *)
(* SpecShell is the `load` command of the interactive shell.  SpecDl is    *)
(* the wait loop of DownloadAction.                                        *)
(***************************************************************************)
EXTENDS Integers, Sequences, FiniteSets, TLC

\* ---------------------------------------------------------------- bounds
MaxActions == 2
MaxRetry == 2
\* number of operations made on the context of one run
MaxOps == 3
\* number of Context instances constructed
MaxContexts == 2
\* largest value of the counters handed to BotMetrics.to_dict
MaxCount == 7
\* number of action records in one configuration
MaxRecords == 2
\* number of further runs of the same action objects
MaxReruns == 1
\* DownloadAction.timeout, in seconds
MaxTimeout == 3

\* retry_count and retry_delay are not validated by Action.__init__;
\* retry_count = 0 is a value the constructor accepts.
RetryCounts == 0..MaxRetry
\* retry_delay: no delay, or the constructor's default of 2 seconds
RetryDelays == {0, 2}
\* str(e) of the exceptions execute() may raise; Exception() has str(e) = ""
ExcMsgs == {"", "E1"}

\* what one call of execute() does
ExecOutcomes == {[kind |-> "true", msg |-> "None"], [kind |-> "false", msg |-> "None"]}
                  \cup {[kind |-> "raise", msg |-> m] : m \in ExcMsgs}

SetupOutcomes == {"ok", "no_driver", "driver_then_fault"}
QuitOutcomes == {"ok", "fault"}

\* keys and values an action may store in the context
Keys == {"k1", "k2"}
Vals == {"v1", "v2"}
\* the dicts update() may be given
Mappings == UNION {[D -> Vals] : D \in SUBSET Keys}
\* the default of get(): None, or a value passed by the caller
Defaults == {"None", "v1"}

\* Optional[float] = None
NoTime == 0

VARIABLES
  heap,       \* the Action objects, by identity (order of construction)
  actions,    \* Bot.actions: list of action identities
  bm,         \* Bot.metrics (BotMetrics)
  driver,     \* Bot.driver: "none" | "open" | "closed"
  bpc,        \* position in Bot.run
  i,          \* index of the for loop of Bot.run (1-based)
  apc,        \* position in Action.run of the action being run
  attempt,    \* loop variable of Action.run (0-based)
  aret,       \* value returned by the last Action.run
  ret,        \* value returned by Bot.run
  raised,     \* an exception left Bot.run
  now,        \* time.time()
  outcomes,   \* history: per action, what each execute() call did
  sleeps,     \* history: per action, the time.sleep(retry_delay) calls made
  started,    \* history: identities of the actions whose run() was entered
  results,    \* history: per action, what run() returned ("none" before)
  setupDone,  \* history: what setup_driver() did ("none" before)
  teardowns,  \* history: number of teardown_driver() calls
  quits,      \* history: number of driver.quit() calls
  lastExc,    \* history: str(e) of the fault of the latest execute() call, or "None"
  faulted,    \* history: a fault was raised in the loop of Bot.run outside Action.run's try
  ctx,        \* BotContext.data / Context.data of the context of the run
  wlog,       \* history: the dicts written through set() and update(), in order
  lastOp,     \* history: the latest operation on the context, its arguments and result
  Context_data, \* bot/context.py: the dict bound to the class attribute Context.data
  ownWrites,  \* history: per Context instance, the values written through that instance
  sharedOp,   \* history: the latest operation on a Context instance, its arguments and result
  written,    \* history: per key, the value execute() last wrote to the context of the run
  modules,    \* ModuleRegistry._modules: registered name -> module
  mpc,        \* position in ModuleRegistry.initialize: the loop and its index
  lastReg,    \* history: the latest _register call, the table before it and whether it raised
  rateOp,     \* history: the latest BotMetrics.to_dict call, its counters and its success_rate
  cpc,        \* position in the CLI command `run`
  exit_status, \* the status the CLI process exited with, "none" while it runs
  loadOp,     \* history: the latest registry or loader call, its arguments and result
  reruns,     \* number of times the action objects were handed to a Bot.run again
  session_active, \* BotContext.session_active of the context of the run
  authOp,     \* history: the latest LoginAction or LogoutAction attempt, its inputs and result
  shell,      \* InteractiveShell: self.actions, self.bot_config, self.config_file
  shellOp,    \* history: the latest load command, the shell state before it and whether it failed
  dl          \* DownloadAction._wait_for_download_complete: its locals, the download directory, the clock

botVars == <<heap, actions, bm, driver, bpc, i, apc, attempt, aret, ret, raised,
             now, outcomes, sleeps, started, results, setupDone, teardowns, quits,
             lastExc, faulted>>

ctxVars == <<ctx, wlog, lastOp>>

sharedVars == <<Context_data, ownWrites, sharedOp>>

\* the variables outside the Bot and the context of its run
modVars == <<modules, mpc, lastReg>>

cliVars == <<cpc, exit_status>>

\* the variables of the specifications of re-runs, of the shell, of the
\* login flags and of downloads
loginVars == <<session_active, authOp>>

shellVars == <<shell, shellOp>>

extVars == <<reruns, loginVars, shellVars, dl>>

auxVars == <<sharedVars, written, modVars, rateOp, cliVars, loadOp, extVars>>

vars == <<botVars, ctxVars, auxVars>>

\* ------------------------------------------------------- ActionMetrics
NewActionMetrics ==
  [start_time |-> NoTime, end_time |-> NoTime, duration |-> NoTime,
   attempts |-> 0, status |-> "SKIPPED", error_message |-> "None"]

MetricsStartOnce(m, t) ==
  [m EXCEPT !.start_time = IF m.start_time = NoTime THEN t ELSE m.start_time,
            !.attempts = m.attempts + 1]

MetricsStart(m, t) ==
  [m EXCEPT !.start_time = t, !.attempts = m.attempts + 1]

MetricsEndKeepFirst(m, status, error_message, t) ==
  [m EXCEPT !.end_time = t,
            !.duration = IF m.start_time # NoTime THEN t - m.start_time ELSE m.duration,
            !.status = status,
            !.error_message = IF m.error_message # "None" THEN m.error_message
                              ELSE error_message]

MetricsEnd(m, status, error_message, t) ==
  [m EXCEPT !.end_time = t,
            !.duration = IF m.start_time # NoTime THEN t - m.start_time ELSE m.duration,
            !.status = status,
            !.error_message = error_message]

\* ---------------------------------------------------------- BotMetrics
NewBotMetrics ==
  [start_time |-> NoTime, end_time |-> NoTime, duration |-> NoTime,
   total_actions |-> 0, successful_actions |-> 0, failed_actions |-> 0,
   action_metrics |-> <<>>, overall_success |-> FALSE]

BotMetricsStart(b, t) == [b EXCEPT !.start_time = t]

BotMetricsEndNoStamp(b, success, t) == [b EXCEPT !.overall_success = success]

BotMetricsEnd(b, success, t) ==
  [b EXCEPT !.end_time = t,
            !.duration = IF b.start_time # NoTime THEN t - b.start_time ELSE b.duration,
            !.overall_success = success]

\* the list holds the ActionMetrics object itself: its identity is recorded
add_action_metrics_miscount(b, a, m) ==
  [b EXCEPT !.action_metrics = Append(b.action_metrics, a),
            !.total_actions = b.total_actions + 1,
            !.failed_actions = IF m.status = "SUCCESS" THEN b.failed_actions + 1
                               ELSE b.failed_actions]

add_action_metrics_nototal(b, a, m) ==
  [b EXCEPT !.action_metrics = Append(b.action_metrics, a),
            !.successful_actions = IF m.status = "SUCCESS" THEN b.successful_actions + 1
                                   ELSE b.successful_actions,
            !.failed_actions = IF m.status = "FAILED" THEN b.failed_actions + 1
                               ELSE b.failed_actions]

add_action_metrics(b, a, m) ==
  [b EXCEPT !.action_metrics = Append(b.action_metrics, a),
            !.total_actions = b.total_actions + 1,
            !.successful_actions = IF m.status = "SUCCESS" THEN b.successful_actions + 1
                                   ELSE b.successful_actions,
            !.failed_actions = IF m.status = "FAILED" THEN b.failed_actions + 1
                               ELSE b.failed_actions]

\* -------------------------------------------------------------- Action
NewAction(r, d) ==
  [retry_count |-> r, retry_delay |-> d, metrics |-> NewActionMetrics]

\* for attempt in range(self.retry_count)
RangeHasNextOffByOne(att, rc) == att <= rc

RangeHasNext(att, rc) == att < rc

\* if attempt < self.retry_count - 1
IsNonFinal(att, rc) == att < rc - 1

\* What Action.run does with the result of one execute() call:
\*   status, error_message : the arguments of metrics.end
\*   next : "return_true"  return True
\*          "continue"     next iteration of the for loop
\*          "sleep"        time.sleep(retry_delay), then next iteration
\*          "propagate"    the exception leaves Action.run
RunBranchNoReturn(o, att, rc) ==
  [status |-> "SUCCESS", error_message |-> "None", next |-> "continue"]

RunBranchUncaught(o, att, rc) ==
  [status |-> "RETRYING", error_message |-> o.msg, next |-> "propagate"]

RunBranchTrue(o, att, rc) ==
  [status |-> "SUCCESS", error_message |-> "None", next |-> "return_true"]

RunBranchFalse(o, att, rc) ==
  IF IsNonFinal(att, rc)
  THEN [status |-> "RETRYING", error_message |-> "Action returned False", next |-> "continue"]
  ELSE [status |-> "FAILED", error_message |-> "Action returned False after all retries",
        next |-> "continue"]

RunBranchRaise(o, att, rc) ==
  IF IsNonFinal(att, rc)
  THEN [status |-> "RETRYING", error_message |-> o.msg, next |-> "sleep"]
  ELSE [status |-> "FAILED", error_message |-> o.msg, next |-> "continue"]

RunBranch(o, att, rc) ==
  CASE o.kind = "true" -> RunBranchTrue(o, att, rc)
    [] o.kind = "false" -> RunBranchFalse(o, att, rc)
    [] o.kind = "raise" -> RunBranchRaise(o, att, rc)

\* ------------------------------------------------ BotContext / Context
\* self.data: Dict[str, Any] = {}
EmptyDict == [k \in {} |-> "None"]

\* self.data[key] = value
ctx_set_keep(d, key, value) ==
  [k \in DOMAIN d \cup {key} |-> IF k \in DOMAIN d THEN d[k] ELSE value]

ctx_set(d, key, value) ==
  [k \in DOMAIN d \cup {key} |-> IF k = key THEN value ELSE d[k]]

\* return self.data.get(key, default)
ctx_get(d, key, default) == IF key \in DOMAIN d THEN d[key] ELSE default

\* what get() leaves in self.data
ctx_get_store(d, key, default) == d

\* self.data.update(data)
ctx_update_partial(d, data) ==
  IF DOMAIN data = {} THEN d
  ELSE LET k1 == CHOOSE k \in DOMAIN data : TRUE
       IN [k \in DOMAIN d \cup {k1} |-> IF k = k1 THEN data[k1] ELSE d[k]]

ctx_update(d, data) ==
  [k \in DOMAIN d \cup DOMAIN data |-> IF k \in DOMAIN data THEN data[k] ELSE d[k]]

\* ----------------------------------------------------------------- Bot
add_action_front(acts, a) == <<a>> \o acts

add_action(acts, a) == Append(acts, a)

\* if not success: ... return False
StopsOnFailureNever(success) == FALSE

StopsOnFailure(success) == success = "False"

\* try: ... except Exception as e: ...   in Bot.run
RunCatchesNothing == FALSE

RunCatches == TRUE

\* setup_driver: except Exception as e: ... raise
SetupRaisesNever(o) == FALSE

SetupRaises(o) == o # "ok"

\* teardown_driver: try: self.driver.quit() ... except Exception as e: log
TeardownCatchesNothing == FALSE

TeardownCatches == TRUE

\* if self.driver: self.driver.quit()
TeardownQuitsNever(d) == FALSE

TeardownQuits(d) == d # "none"

Cur == actions[i]

Init ==
  /\ heap = <<>>
  /\ actions = <<>>
  /\ bm = NewBotMetrics
  /\ driver = "none"
  /\ bpc = "created"
  /\ i = 1
  /\ apc = "idle"
  /\ attempt = 0
  /\ aret = "none"
  /\ ret = "none"
  /\ raised = FALSE
  /\ now = 1
  /\ outcomes = <<>>
  /\ sleeps = <<>>
  /\ started = <<>>
  /\ results = <<>>
  /\ setupDone = "none"
  /\ teardowns = 0
  /\ quits = 0
  /\ lastExc = "None"
  /\ faulted = FALSE
  /\ ctx = EmptyDict
  /\ wlog = <<>>
  /\ lastOp = [op |-> "none", n |-> 0]
  /\ Context_data = EmptyDict
  /\ ownWrites = <<>>
  /\ sharedOp = [op |-> "none", n |-> 0]
  /\ written = EmptyDict
  /\ modules = EmptyDict
  /\ mpc = [loop |-> "builtin", k |-> 1]
  /\ lastReg = [op |-> "none"]
  /\ rateOp = [op |-> "none"]
  /\ cpc = "start"
  /\ exit_status = "none"
  /\ loadOp = [op |-> "none"]
  /\ reruns = 0
  /\ session_active = FALSE
  /\ authOp = [op |-> "none", n |-> 0]
  /\ shell = [actions |-> <<>>, bot_config |-> "interactive-bot", config_file |-> "None"]
  /\ shellOp = [op |-> "none", n |-> 0]
  /\ dl = [pc |-> "idle"]

\* Action(...) constructed and handed to Bot.add_action
AddAction(r, d) ==
  /\ bpc = "created"
  /\ Len(heap) < MaxActions
  /\ heap' = Append(heap, NewAction(r, d))
  /\ actions' = add_action(actions, Len(heap) + 1)
  /\ outcomes' = Append(outcomes, <<>>)
  /\ sleeps' = Append(sleeps, <<>>)
  /\ results' = Append(results, "none")
  /\ UNCHANGED <<bm, driver, bpc, i, apc, attempt, aret, ret, raised, now,
                 started, setupDone, teardowns, quits>>
  /\ UNCHANGED <<lastExc, faulted>>
  /\ UNCHANGED <<ctxVars, auxVars>>

\* Bot.run up to the try: log, self.metrics.start()
RunBegin ==
  /\ bpc = "created"
  /\ bm' = BotMetricsStart(bm, now)
  /\ bpc' = "setup"
  /\ UNCHANGED <<heap, actions, driver, i, apc, attempt, aret, ret, raised, now,
                 outcomes, sleeps, started, results, setupDone, teardowns, quits>>
  /\ UNCHANGED <<lastExc, faulted>>
  /\ UNCHANGED <<ctxVars, auxVars>>

\* a fault inside the try block of Bot.run
FaultInRun ==
  /\ bpc' = IF RunCatches THEN "except" ELSE "finally"
  /\ raised' = ~RunCatches

\* self.setup_driver()
SetupDriver(o) ==
  /\ bpc = "setup"
  /\ driver' = IF o = "no_driver" THEN driver ELSE "open"
  /\ setupDone' = o
  /\ now' = now + 1
  /\ IF SetupRaises(o)
     THEN FaultInRun
     ELSE /\ bpc' = "loop"
          /\ UNCHANGED raised
  /\ UNCHANGED <<heap, actions, bm, i, apc, attempt, aret, ret,
                 outcomes, sleeps, started, results, teardowns, quits>>
  /\ UNCHANGED <<lastExc, faulted>>
  /\ UNCHANGED <<ctxVars, auxVars>>

\* for i, action in enumerate(self.actions): success = action.run(...)
\* and, after the loop, the success return
LoopNext ==
  /\ bpc = "loop"
  /\ IF i <= Len(actions)
     THEN /\ bpc' = "run"
          /\ apc' = "start"
          /\ attempt' = 0
          /\ started' = Append(started, Cur)
          /\ UNCHANGED <<bm, ret>>
     ELSE /\ bm' = BotMetricsEnd(bm, TRUE, now)
          /\ ret' = "True"
          /\ bpc' = "finally"
          /\ UNCHANGED <<apc, attempt, started>>
  /\ UNCHANGED <<heap, actions, driver, i, aret, raised, now,
                 outcomes, sleeps, results, setupDone, teardowns, quits>>
  /\ UNCHANGED <<lastExc, faulted>>
  /\ UNCHANGED <<ctxVars, auxVars>>

\* head of the for loop of Action.run, then self.metrics.start();
\* when the range is exhausted: return False
AttemptStart ==
  /\ bpc = "run"
  /\ apc = "start"
  /\ IF RangeHasNext(attempt, heap[Cur].retry_count)
     THEN /\ heap' = [heap EXCEPT ![Cur].metrics = MetricsStart(@, now)]
          /\ apc' = "exec"
          /\ UNCHANGED <<bpc, aret, results>>
     ELSE /\ aret' = "False"
          /\ results' = [results EXCEPT ![Cur] = "False"]
          /\ apc' = "idle"
          /\ bpc' = "returned"
          /\ UNCHANGED heap
  /\ UNCHANGED <<actions, bm, driver, i, attempt, ret, raised, now,
                 outcomes, sleeps, started, setupDone, teardowns, quits>>
  /\ UNCHANGED <<lastExc, faulted>>
  /\ UNCHANGED <<ctxVars, auxVars>>

\* success = self.execute(driver, context) and the handling of its result
ExecuteBody(o) ==
  /\ bpc = "run"
  /\ apc = "exec"
  /\ LET b == RunBranch(o, attempt, heap[Cur].retry_count)
     IN /\ now' = now + 1
        /\ outcomes' = [outcomes EXCEPT ![Cur] = Append(@, o.kind)]
        /\ lastExc' = o.msg
        /\ heap' = [heap EXCEPT ![Cur].metrics =
                      MetricsEnd(@, b.status, b.error_message, now')]
        /\ CASE b.next = "return_true" ->
                  /\ aret' = "True"
                  /\ results' = [results EXCEPT ![Cur] = "True"]
                  /\ apc' = "idle"
                  /\ bpc' = "returned"
                  /\ UNCHANGED <<attempt, raised>>
             [] b.next = "continue" ->
                  /\ attempt' = attempt + 1
                  /\ apc' = "start"
                  /\ UNCHANGED <<aret, results, bpc, raised>>
             [] b.next = "sleep" ->
                  /\ apc' = "sleep"
                  /\ UNCHANGED <<attempt, aret, results, bpc, raised>>
             [] b.next = "propagate" ->
                  /\ apc' = "idle"
                  /\ FaultInRun
                  /\ UNCHANGED <<attempt, aret, results>>
  /\ UNCHANGED <<actions, bm, driver, i, ret, sleeps, started, setupDone, teardowns, quits>>
  /\ UNCHANGED faulted

\* an execute() that leaves the context alone
Execute(o) ==
  /\ ExecuteBody(o)
  /\ UNCHANGED <<ctxVars, auxVars>>

\* time.sleep(self.retry_delay)
Sleep ==
  /\ bpc = "run"
  /\ apc = "sleep"
  /\ now' = now + heap[Cur].retry_delay
  /\ sleeps' = [sleeps EXCEPT ![Cur] = Append(@, heap[Cur].retry_delay)]
  /\ attempt' = attempt + 1
  /\ apc' = "start"
  /\ UNCHANGED <<heap, actions, bm, driver, bpc, i, aret, ret, raised,
                 outcomes, started, results, setupDone, teardowns, quits>>
  /\ UNCHANGED <<lastExc, faulted>>
  /\ UNCHANGED <<ctxVars, auxVars>>

\* self.metrics.add_action_metrics(action.metrics); if not success: ...
ActionReturned ==
  /\ bpc = "returned"
  /\ LET b1 == add_action_metrics(bm, Cur, heap[Cur].metrics)
     IN IF StopsOnFailure(aret)
        THEN /\ bm' = BotMetricsEnd(b1, FALSE, now)
             /\ ret' = "False"
             /\ bpc' = "finally"
             /\ UNCHANGED i
        ELSE /\ bm' = b1
             /\ i' = i + 1
             /\ bpc' = "loop"
             /\ UNCHANGED ret
  /\ UNCHANGED <<heap, actions, driver, apc, attempt, aret, raised, now,
                 outcomes, sleeps, started, results, setupDone, teardowns, quits>>
  /\ UNCHANGED <<lastExc, faulted>>
  /\ UNCHANGED <<ctxVars, auxVars>>

\* except Exception as e: ... self.metrics.end(False) ... return False
ExceptHandler ==
  /\ bpc = "except"
  /\ bm' = BotMetricsEnd(bm, FALSE, now)
  /\ ret' = "False"
  /\ bpc' = "finally"
  /\ UNCHANGED <<heap, actions, driver, i, apc, attempt, aret, raised, now,
                 outcomes, sleeps, started, results, setupDone, teardowns, quits>>
  /\ UNCHANGED <<lastExc, faulted>>
  /\ UNCHANGED <<ctxVars, auxVars>>

\* finally: self.teardown_driver()
Teardown(q) ==
  /\ bpc = "finally"
  /\ teardowns' = teardowns + 1
  /\ IF TeardownQuits(driver)
     THEN /\ quits' = quits + 1
          /\ driver' = IF q = "ok" THEN "closed" ELSE driver
          /\ IF q = "fault" /\ ~TeardownCatches
             THEN /\ raised' = TRUE
                  /\ ret' = "none"
             ELSE UNCHANGED <<ret, raised>>
     ELSE /\ q = "ok"
          /\ UNCHANGED <<quits, driver, ret, raised>>
  /\ bpc' = "done"
  /\ UNCHANGED <<heap, actions, bm, i, apc, attempt, aret, now,
                 outcomes, sleeps, started, results, setupDone>>
  /\ UNCHANGED <<lastExc, faulted>>
  /\ UNCHANGED <<ctxVars, auxVars>>

Next ==
  \/ \E r \in RetryCounts, d \in RetryDelays : AddAction(r, d)
  \/ RunBegin
  \/ \E o \in SetupOutcomes : SetupDriver(o)
  \/ LoopNext
  \/ AttemptStart
  \/ \E o \in ExecOutcomes : Execute(o)
  \/ Sleep
  \/ ActionReturned
  \/ ExceptHandler
  \/ \E q \in QuitOutcomes : Teardown(q)

Spec == Init /\ [][Next]_vars

\* ------------------------------------------------------- termination
\* A step of Bot.run once it was invoked.  The interpreter runs the one
\* thread of Bot.run on, and every execute(), time.sleep(), webdriver.Chrome()
\* and driver.quit() call returns or raises.
RunStep == bpc # "created" /\ Next

SpecTerm == Init /\ [][Next]_vars /\ WF_vars(RunStep)

\* ------------------------------------------------------------ re-runs
\* The action objects of a finished run are run again.  "new_bot" is the
\* shell's do_run: a new Bot, bot.add_action for each of self.actions, then
\* bot.run().  "same_bot" is a second bot.run() on the same Bot.  The step
\* goes up to the try of Bot.run.  The action objects, and with them their
\* ActionMetrics, are the same ones; the histories start again for the new
\* run.
RerunKinds == {"new_bot", "same_bot"}

Rerun(kind) ==
  /\ bpc = "done"
  /\ ~raised
  /\ reruns < MaxReruns
  /\ kind = "new_bot" => Len(actions) > 0
  /\ reruns' = reruns + 1
  /\ bm' = BotMetricsStart(IF kind = "new_bot" THEN NewBotMetrics ELSE bm, now)
  /\ driver' = IF kind = "new_bot" THEN "none" ELSE driver
  /\ bpc' = "setup"
  /\ i' = 1
  /\ apc' = "idle"
  /\ attempt' = 0
  /\ aret' = "none"
  /\ ret' = "none"
  /\ outcomes' = [a \in DOMAIN outcomes |-> <<>>]
  /\ sleeps' = [a \in DOMAIN sleeps |-> <<>>]
  /\ started' = <<>>
  /\ results' = [a \in DOMAIN results |-> "none"]
  /\ setupDone' = "none"
  /\ teardowns' = 0
  /\ quits' = 0
  /\ lastExc' = "None"
  /\ UNCHANGED <<heap, actions, raised, now, faulted>>
  /\ UNCHANGED <<ctxVars, sharedVars, written, modVars, rateOp, cliVars, loadOp>>
  /\ UNCHANGED <<loginVars, shellVars, dl>>

NextRerun ==
  \/ Next
  \/ \E kind \in RerunKinds : Rerun(kind)

SpecRerun == Init /\ [][NextRerun]_vars

\* ------------------------------------------------------------ download
\* DownloadAction with verify_download = True and expected_filename = "*.csv".
\* Files of the download directory: one that was there before the click,
\* two that may appear, and Chrome's temporary file of a running download.
OldFiles == {"old.csv"}
NewFiles == {"report.csv", "other.txt"}
TempFiles == {"part.crdownload"}

\* glob '*.crdownload' and '*.tmp'
temp_files(dir) == dir \cap TempFiles

\* fnmatch.fnmatch(f, self.expected_filename)
fnmatch(f) == f \in {"report.csv", "old.csv"}

\* list(new_files)[0]: the first element in the iteration order of the set,
\* which the hashes of the strings decide (randomised per process).  order
\* is that order for this process.
RECURSIVE FirstOf(_, _)
FirstOf(order, new_files) ==
  IF Head(order) \in new_files THEN Head(order) ELSE FirstOf(Tail(order), new_files)

HashOrders == {<<"report.csv", "other.txt">>, <<"other.txt", "report.csv">>}

notDl == <<botVars, ctxVars, sharedVars, written, modVars, rateOp, cliVars,
           loadOp, reruns, loginVars, shellVars>>

\* files_before = self._get_download_files_before(), the click, then
\* start_time = time.time() at the head of _wait_for_download_complete
DlStart(before, order) ==
  /\ dl.pc = "idle"
  /\ dl' = [pc |-> "poll", files_before |-> before, dir |-> before, order |-> order,
            elapsed |-> 0, result |-> "none", seen |-> FALSE]
  /\ UNCHANGED notDl

\* the browser (or anything else) creates or removes a file of the directory
\* while the action waits
DlFileEvent(f) ==
  /\ dl.pc = "poll"
  /\ f \in NewFiles \cup TempFiles
  /\ dl' = [dl EXCEPT !.dir = IF f \in @ THEN @ \ {f} ELSE @ \cup {f}]
  /\ UNCHANGED notDl

\* one pass of the while loop.  seen records that this pass, before the
\* timeout, found no temporary file and a new file matching expected_filename.
DlPoll ==
  /\ dl.pc = "poll"
  /\ IF ~(dl.elapsed < MaxTimeout)
     THEN dl' = [dl EXCEPT !.pc = "done", !.result = "None"]
     ELSE IF temp_files(dl.dir) # {}
     THEN dl' = [dl EXCEPT !.elapsed = @ + 1]
     ELSE LET new_files == dl.dir \ dl.files_before
              seen == dl.seen \/ \E f \in new_files : fnmatch(f)
          IN IF new_files # {} /\ fnmatch(FirstOf(dl.order, new_files))
             THEN dl' = [dl EXCEPT !.pc = "done", !.seen = seen,
                                   !.result = FirstOf(dl.order, new_files)]
             ELSE dl' = [dl EXCEPT !.elapsed = @ + 1, !.seen = seen]
  /\ UNCHANGED notDl

NextDl ==
  \/ \E before \in SUBSET OldFiles, order \in HashOrders : DlStart(before, order)
  \/ \E f \in NewFiles \cup TempFiles : DlFileEvent(f)
  \/ DlPoll

SpecDl == Init /\ [][NextDl]_vars

\* ---------------------------------------------------- login / logout
\* What the browser does during one LoginAction.execute: the statement that
\* raises, if any (driver.get, a find_element / typing / click, a fault of
\* _verify_login other than TimeoutException, driver.refresh), and whether
\* the success indicator shows up in the first and in the second wait.
LoginFaults == {"none", "get", "find", "verify", "refresh"}

LoginInputs ==
  [fault : LoginFaults, v1 : BOOLEAN, v2 : BOOLEAN, retry_with_refresh : BOOLEAN]

\* the result of an attempt: the context after it and what execute() did
Attempt(data, active, result) ==
  [data |-> data, session_active |-> active, result |-> result]

\* the flags are stored before the verification
login_execute_eager(data, active, inp) ==
  LET d1 == ctx_set(data, "logged_in", "True")
  IN IF inp.fault \in {"get", "find", "verify"} THEN Attempt(d1, TRUE, "raise")
     ELSE IF inp.v1 THEN Attempt(d1, TRUE, "True")
     ELSE IF ~inp.retry_with_refresh THEN Attempt(d1, TRUE, "False")
     ELSE IF inp.fault = "refresh" THEN Attempt(d1, TRUE, "raise")
     ELSE IF inp.v2 THEN Attempt(d1, TRUE, "True")
     ELSE Attempt(d1, TRUE, "False")

\* LoginAction.execute
login_execute(data, active, inp) ==
  IF inp.fault \in {"get", "find", "verify"} THEN Attempt(data, active, "raise")
  ELSE LET login_verified ==
             IF inp.v1 THEN TRUE
             ELSE IF inp.retry_with_refresh THEN inp.v2 ELSE FALSE
       IN IF ~inp.v1 /\ inp.retry_with_refresh /\ inp.fault = "refresh"
          THEN Attempt(data, active, "raise")
          ELSE IF ~login_verified THEN Attempt(data, active, "False")
          ELSE Attempt(ctx_set(data, "logged_in", "True"), TRUE, "True")

\* LogoutAction: built with a logout_url, with a logout_selector, or neither
LogoutModes == {"url", "selector", "neither"}

\* LogoutAction.execute; fault: driver.get / find_element / click raises
logout_execute(data, active, mode, fault) ==
  IF mode # "neither" /\ fault THEN Attempt(data, active, "raise")
  ELSE Attempt(ctx_set(data, "logged_in", "False"), FALSE, "True")

notLogin == <<botVars, wlog, lastOp, sharedVars, written, modVars, rateOp, cliVars,
              loadOp, reruns, shellVars, dl>>

\* one attempt of a LoginAction on the context of the run
LoginExecute(inp) ==
  /\ authOp.n < MaxOps
  /\ LET r == login_execute(ctx, session_active, inp)
     IN /\ ctx' = r.data
        /\ session_active' = r.session_active
        /\ authOp' = [op |-> "login", n |-> authOp.n + 1, inp |-> inp,
                      data |-> ctx, session_active |-> session_active,
                      result |-> r.result]
  /\ UNCHANGED notLogin

\* one attempt of a LogoutAction on the context of the run
LogoutExecute(mode, fault) ==
  /\ authOp.n < MaxOps
  /\ LET r == logout_execute(ctx, session_active, mode, fault)
     IN /\ ctx' = r.data
        /\ session_active' = r.session_active
        /\ authOp' = [op |-> "logout", n |-> authOp.n + 1, mode |-> mode,
                      fault |-> fault, data |-> ctx,
                      session_active |-> session_active, result |-> r.result]
  /\ UNCHANGED notLogin

NextLogin ==
  \/ \E inp \in LoginInputs : LoginExecute(inp)
  \/ \E mode \in LogoutModes, fault \in BOOLEAN : LogoutExecute(mode, fault)

SpecLogin == Init /\ [][NextLogin]_vars

\* ------------------------------------------------- faults in the loop
\* A statement of the try block of Bot.run that is not inside the try of
\* Action.run raises: the logger calls and the bookkeeping of the for loop
\* (bot.py 209-235), and the except handler of Action.run (action.py
\* 78-98: logger.warning, time.sleep, logger.error).
OutsideRunnerTry ==
  \/ bpc = "loop"
  \/ bpc = "returned"
  \/ bpc = "run" /\ apc = "sleep"
  \/ /\ bpc = "run" /\ apc = "start"
     /\ ~RangeHasNext(attempt, heap[Cur].retry_count)
     /\ Len(outcomes[Cur]) > 0
     /\ outcomes[Cur][Len(outcomes[Cur])] = "raise"

\* after: the fault comes after add_action_metrics (bot.py 216) was done
LoopFault(after) ==
  /\ OutsideRunnerTry
  /\ after => bpc = "returned"
  /\ bm' = IF after THEN add_action_metrics(bm, Cur, heap[Cur].metrics) ELSE bm
  /\ faulted' = TRUE
  /\ apc' = "idle"
  /\ FaultInRun
  /\ UNCHANGED <<heap, actions, driver, i, attempt, aret, ret, now,
                 outcomes, sleeps, started, results, setupDone, teardowns, quits,
                 lastExc>>
  /\ UNCHANGED <<ctxVars, auxVars>>

NextFault ==
  \/ Next
  \/ \E after \in BOOLEAN : LoopFault(after)

SpecFault == Init /\ [][NextFault]_vars

\* ------------------------------------ execute() writing to the context
\* what an execute() call may store before it returns or raises
\* (AlertAction.execute: context.set(self.store_text_in_context, alert_text)
\* and then `return False` when the expected text is missing)
RunWrites == {<<"k1", "v1">>, <<"k2", "v1">>}

\* Action.run after execute(): nothing between lines 53 and 98 touches the
\* context, whatever the attempt did
ctx_after_attempt_rollback(before, after, kind) ==
  IF kind = "true" THEN after ELSE before

ctx_after_attempt(before, after, kind) == after

ExecuteW(o, w) ==
  /\ ExecuteBody(o)
  /\ ctx' = ctx_after_attempt(ctx, ctx_set(ctx, w[1], w[2]), o.kind)
  /\ written' = ctx_set(written, w[1], w[2])
  /\ UNCHANGED <<wlog, lastOp, sharedVars, modVars, rateOp, cliVars, loadOp, extVars>>

NextWrites ==
  \/ Next
  \/ \E o \in ExecOutcomes, w \in RunWrites : ExecuteW(o, w)

SpecWrites == Init /\ [][NextWrites]_vars

\* ------------------------------------------- operations on the context
\* context.set(key, value)
CtxSet(key, value) ==
  /\ lastOp.n < MaxOps
  /\ ctx' = ctx_set(ctx, key, value)
  /\ wlog' = Append(wlog, [k \in {key} |-> value])
  /\ lastOp' = [op |-> "set", n |-> lastOp.n + 1, before |-> ctx]
  /\ UNCHANGED <<botVars, auxVars>>

\* context.get(key, default)
CtxGet(key, default) ==
  /\ lastOp.n < MaxOps
  /\ ctx' = ctx_get_store(ctx, key, default)
  /\ lastOp' = [op |-> "get", n |-> lastOp.n + 1, before |-> ctx,
                key |-> key, default |-> default,
                result |-> ctx_get(ctx, key, default)]
  /\ UNCHANGED <<wlog, botVars, auxVars>>

\* context.update(data)
CtxUpdate(data) ==
  /\ lastOp.n < MaxOps
  /\ ctx' = ctx_update(ctx, data)
  /\ wlog' = Append(wlog, data)
  /\ lastOp' = [op |-> "update", n |-> lastOp.n + 1, before |-> ctx, data |-> data]
  /\ UNCHANGED <<botVars, auxVars>>

NextCtx ==
  \/ \E key \in Keys, value \in Vals : CtxSet(key, value)
  \/ \E key \in Keys, default \in Defaults : CtxGet(key, default)
  \/ \E data \in Mappings : CtxUpdate(data)

SpecCtx == Init /\ [][NextCtx]_vars

\* ------------------------------- Context instances (bot/context.py)
\* Context has no __init__: `data` is an attribute of the class, bound once
\* to one dict when the class body is executed.  self.data on an instance
\* finds no instance attribute and resolves to that dict.
notShared == <<botVars, ctxVars, written, modVars, rateOp, cliVars, loadOp, extVars>>

\* Context()
NewContext ==
  /\ Len(ownWrites) < MaxContexts
  /\ ownWrites' = Append(ownWrites, EmptyDict)
  /\ UNCHANGED <<Context_data, sharedOp, notShared>>

\* c.set(key, value)
ContextSet(c, key, value) ==
  /\ sharedOp.n < MaxOps
  /\ Context_data' = ctx_set(Context_data, key, value)
  /\ ownWrites' = [ownWrites EXCEPT ![c] = ctx_set(@, key, value)]
  /\ sharedOp' = [op |-> "set", n |-> sharedOp.n + 1, c |-> c]
  /\ UNCHANGED notShared

\* c.get(key, default)
ContextGet(c, key, default) ==
  /\ sharedOp.n < MaxOps
  /\ Context_data' = ctx_get_store(Context_data, key, default)
  /\ sharedOp' = [op |-> "get", n |-> sharedOp.n + 1, c |-> c,
                  key |-> key, default |-> default,
                  result |-> ctx_get(Context_data, key, default)]
  /\ UNCHANGED <<ownWrites, notShared>>

\* c.update(data)
ContextUpdate(c, data) ==
  /\ sharedOp.n < MaxOps
  /\ Context_data' = ctx_update(Context_data, data)
  /\ ownWrites' = [ownWrites EXCEPT ![c] = ctx_update(@, data)]
  /\ sharedOp' = [op |-> "update", n |-> sharedOp.n + 1, c |-> c]
  /\ UNCHANGED notShared

NextShared ==
  \/ NewContext
  \/ \E c \in 1..Len(ownWrites), key \in Keys, value \in Vals : ContextSet(c, key, value)
  \/ \E c \in 1..Len(ownWrites), key \in Keys, default \in Defaults :
        ContextGet(c, key, default)
  \/ \E c \in 1..Len(ownWrites), data \in Mappings : ContextUpdate(c, data)

SpecShared == Init /\ [][NextShared]_vars

\* ------------------------------- ModuleRegistry (rbp/config/registry.py)
\* the modules pkgutil.iter_modules finds, in the sorted order it yields
\* them: in the package rbp.modules.scripts and in ~/.rbp/scripts
BuiltinNames == <<"bing", "scan">>
UserNames == <<"bing", "tool">>
\* the module attribute __rbp_name__, "None" when the module has none
RbpNames == {"None", "bing", "tool"}

notMod == <<botVars, ctxVars, sharedVars, written, rateOp, cliVars, loadOp, extVars>>

\* getattr(module, "__rbp_name__", module.__name__.split(".")[-1])
RegisteredName(modname, rbp_name) ==
  IF rbp_name # "None" THEN rbp_name ELSE modname

\* cls._modules[name] = module
register(ms, name, module) ==
  [n \in DOMAIN ms \cup {name} |-> IF n = name THEN module ELSE ms[n]]

\* one iteration of a loading loop: import the module and, when it has the
\* run method, _register it
LoadModule(source, modname, hasRun, rbp_name) ==
  LET module == [source |-> source, modname |-> modname, rbp_name |-> rbp_name]
      name == RegisteredName(modname, rbp_name)
  IN IF hasRun
     THEN /\ modules' = register(modules, name, module)
          /\ lastReg' = [op |-> "register", name |-> name, module |-> module,
                         before |-> modules, raised |-> FALSE]
     ELSE UNCHANGED <<modules, lastReg>>

\* _load_builtin_modules
LoadBuiltin(hasRun, rbp_name) ==
  /\ mpc.loop = "builtin"
  /\ IF mpc.k <= Len(BuiltinNames)
     THEN /\ LoadModule("builtin", BuiltinNames[mpc.k], hasRun, rbp_name)
          /\ mpc' = [mpc EXCEPT !.k = @ + 1]
     ELSE /\ mpc' = [loop |-> "user", k |-> 1]
          /\ UNCHANGED <<modules, lastReg>>
  /\ UNCHANGED notMod

\* _load_user_modules
LoadUser(hasRun, rbp_name) ==
  /\ mpc.loop = "user"
  /\ IF mpc.k <= Len(UserNames)
     THEN /\ LoadModule("user", UserNames[mpc.k], hasRun, rbp_name)
          /\ mpc' = [mpc EXCEPT !.k = @ + 1]
     ELSE /\ mpc' = [loop |-> "done", k |-> 1]
          /\ UNCHANGED <<modules, lastReg>>
  /\ UNCHANGED notMod

NextMod ==
  \/ \E hasRun \in BOOLEAN, rbp_name \in RbpNames : LoadBuiltin(hasRun, rbp_name)
  \/ \E hasRun \in BOOLEAN, rbp_name \in RbpNames : LoadUser(hasRun, rbp_name)

SpecMod == Init /\ [][NextMod]_vars

\* ------------------------------------------- BotMetrics.to_dict
\* round(x, 2) of the rational x = n / d, in hundredths: Python rounds to
\* the nearest hundredth, a tie going to the even one
RoundTruncate(n, d) == n \div d

RoundHalfEven(n, d) ==
  LET q == n \div d
      r == n % d
  IN IF 2 * r < d THEN q
     ELSE IF 2 * r > d THEN q + 1
     ELSE IF q % 2 = 0 THEN q ELSE q + 1

\* "success_rate": round(successful_actions / total_actions * 100, 2)
\*                 if total_actions > 0 else 0          (in hundredths)
success_rate(successful_actions, total_actions) ==
  IF total_actions > 0
  THEN RoundHalfEven(10000 * successful_actions, total_actions)
  ELSE 0

notRate == <<botVars, ctxVars, sharedVars, written, modVars, cliVars, loadOp, extVars>>

ToDict(s, f, t) ==
  /\ s + f <= t
  /\ rateOp' = [op |-> "to_dict", successful_actions |-> s, failed_actions |-> f,
                total_actions |-> t, success_rate |-> success_rate(s, t)]
  /\ UNCHANGED notRate

NextRate == \E s \in 0..MaxCount, f \in 0..MaxCount, t \in 0..MaxCount : ToDict(s, f, t)

SpecRate == Init /\ [][NextRate]_vars

\* ------------------------------------- the CLI command `run` (cli/)
\* --config-file: not given, a path that does not exist, or an existing file
ConfigFiles == {"None", "absent.yaml", "bot.yaml", "bot.yml", "bot.json", "bot.txt"}
\* --config: not given, the empty string, or a JSON string
Configs == {"None", "", "json"}
\* what loading the configuration and building the Bot does
LoadOutcomes == {"ok", "invalid", "config_error"}

PathExists(f) == f \in {"bot.yaml", "bot.yml", "bot.json", "bot.txt"}

\* path.suffix.lower()
Suffix(f) ==
  CASE f \in {"absent.yaml", "bot.yaml"} -> ".yaml"
    [] f = "bot.yml" -> ".yml"
    [] f = "bot.json" -> ".json"
    [] f = "bot.txt" -> ".txt"
    [] OTHER -> ""

\* run_bot: which runner the configuration is handed to, or why none is
config_source(config_file, config) ==
  IF config_file # "None"
  THEN IF ~PathExists(config_file) THEN "not_found"
       ELSE IF Suffix(config_file) \in {".yaml", ".yml"} THEN "yaml"
       ELSE IF Suffix(config_file) = ".json" THEN "json_file"
       ELSE "unsupported"
  ELSE IF config \notin {"None", ""} THEN "json_string"
  ELSE "no_config"

\* sys.exit(0 if success else 1)
ExitStatusZero(success) == 0

ExitStatus(success) == IF success THEN 0 ELSE 1

notCli == <<ctxVars, sharedVars, written, modVars, rateOp, loadOp, extVars>>

\* rbp run --config-file ... --config ...: run_bot up to the choice of runner
RunCommand(config_file, config) ==
  /\ cpc = "start"
  /\ LET source == config_source(config_file, config)
     IN IF source \in {"yaml", "json_file", "json_string"}
        THEN /\ cpc' = source
             /\ UNCHANGED exit_status
        ELSE /\ cpc' = "exit"
             /\ exit_status' = ExitStatus(FALSE)
  /\ UNCHANGED <<botVars, notCli>>

\* run_from_yaml / run_from_json_file / run_from_json_string up to
\* bot.run(): a fault while loading or building is caught and False returned
LoadConfig(o) ==
  /\ cpc \in {"yaml", "json_file", "json_string"}
  /\ IF o = "ok"
     THEN /\ cpc' = "run"
          /\ UNCHANGED exit_status
     ELSE /\ cpc' = "exit"
          /\ exit_status' = ExitStatus(FALSE)
  /\ UNCHANGED <<botVars, notCli>>

\* bot.add_action(action) for the loaded actions, then success = bot.run()
BotStep ==
  /\ cpc = "run"
  /\ Next

\* return success; sys.exit(0 if success else 1).  A fault leaving bot.run()
\* is caught by the runner, which returns False.
RunReturned ==
  /\ cpc = "run"
  /\ bpc = "done"
  /\ cpc' = "exit"
  /\ exit_status' = ExitStatus(~raised /\ ret = "True")
  /\ UNCHANGED <<botVars, notCli>>

NextCli ==
  \/ \E config_file \in ConfigFiles, config \in Configs : RunCommand(config_file, config)
  \/ \E o \in LoadOutcomes : LoadConfig(o)
  \/ BotStep
  \/ RunReturned

SpecCli == Init /\ [][NextCli]_vars

\* ------------------------------------- action registry (config/action_registry.py)
\* classes are named by their class name
ACTION_REGISTRY_shared ==
  [t \in {"navigate", "click", "download", "submit_form", "login", "alert"} |->
     CASE t = "navigate" -> "NavigateAction"
       [] t = "click" -> "ClickAction"
       [] t = "download" -> "ClickAction"
       [] t = "submit_form" -> "SubmitFormAction"
       [] t = "login" -> "LoginAction"
       [] t = "alert" -> "AlertAction"]

ACTION_REGISTRY ==
  [t \in {"navigate", "click", "download", "submit_form", "login", "alert"} |->
     CASE t = "navigate" -> "NavigateAction"
       [] t = "click" -> "ClickAction"
       [] t = "download" -> "DownloadAction"
       [] t = "submit_form" -> "SubmitFormAction"
       [] t = "login" -> "LoginAction"
       [] t = "alert" -> "AlertAction"]

\* the order in which the dict literal lists its keys
RegistryOrder == <<"navigate", "click", "download", "submit_form", "login", "alert">>

\* {v: k for k, v in ACTION_REGISTRY.items()}: a later key replaces an
\* earlier one that has the same value
ACTION_TYPE_NAMES ==
  [c \in {ACTION_REGISTRY[t] : t \in DOMAIN ACTION_REGISTRY} |->
     LET ks == {k \in 1..Len(RegistryOrder) : ACTION_REGISTRY[RegistryOrder[k]] = c}
     IN RegistryOrder[CHOOSE k \in ks : \A j \in ks : j <= k]]

\* results of the registry and loader calls
Err(kind, names, listed) ==
  [ok |-> FALSE, kind |-> kind, names |-> names, listed |-> listed, value |-> <<>>]

Ok(value) ==
  [ok |-> TRUE, kind |-> "none", names |-> {}, listed |-> {}, value |-> value]

\* ValueError(f"Unknown action type: '{action_type}'. Available types: ...")
get_action_class(action_type) ==
  IF action_type \notin DOMAIN ACTION_REGISTRY
  THEN Err("unknown_type", {action_type}, DOMAIN ACTION_REGISTRY)
  ELSE Ok(ACTION_REGISTRY[action_type])

\* ValueError(f"Action class not registered: {action_class.__name__}")
get_action_type_name(action_class) ==
  IF action_class \notin DOMAIN ACTION_TYPE_NAMES
  THEN Err("not_registered", {action_class}, {})
  ELSE Ok(ACTION_TYPE_NAMES[action_class])

\* ------------------- the action classes of the registry and their fields
\* fields declared without a default (NavigateAction.url, ClickableAction.
\* selector, DownloadAction.download_dir)
Required(c) ==
  CASE c = "NavigateAction" -> {"url"}
    [] c = "ClickAction" -> {"selector"}
    [] c = "DownloadAction" -> {"selector", "download_dir"}
    [] OTHER -> {}

\* fields declared with a default, and the default
FieldDefaults(c) ==
  CASE c = "NavigateAction" -> [save_dom |-> "False"]
    [] c = "ClickAction" -> [by |-> "CSS_SELECTOR", scroll_to_element |-> "True"]
    [] c = "DownloadAction" ->
         [by |-> "CSS_SELECTOR", scroll_to_element |-> "True",
          expected_filename |-> "None", timeout |-> "180", verify_download |-> "True"]
    [] OTHER -> EmptyDict

\* the values of the Literal `type` fields of the members of ActionUnion
UnionTags ==
  {"NavigateAction", "ClickAction", "DownloadAction", "SubmitFormAction", "LoginAction"}

\* a validation that fills in a required field that is missing
validate_python_lenient(r) ==
  IF "type" \notin DOMAIN r THEN Err("validation", {"type"}, {})
  ELSE IF r["type"] \notin UnionTags THEN Err("validation", {r["type"]}, UnionTags)
  ELSE LET c == r["type"]
       IN Ok([variant |-> c,
              fields |-> [f \in Required(c) \cup DOMAIN FieldDefaults(c) |->
                            IF f \in DOMAIN r THEN r[f]
                            ELSE IF f \in Required(c) THEN "None"
                            ELSE FieldDefaults(c)[f]]])

\* BotSerializer._action_adapter.validate_python(action_data): the class
\* is chosen by the `type` field, a field without default must be given,
\* a field with default takes it when absent
validate_python(r) ==
  IF "type" \notin DOMAIN r THEN Err("validation", {"type"}, {})
  ELSE IF r["type"] \notin UnionTags THEN Err("validation", {r["type"]}, UnionTags)
  ELSE LET c == r["type"]
           missing == Required(c) \ DOMAIN r
       IN IF missing # {} THEN Err("validation", missing, {})
          ELSE Ok([variant |-> c,
                   fields |-> [f \in Required(c) \cup DOMAIN FieldDefaults(c) |->
                                 IF f \in DOMAIN r THEN r[f]
                                 ELSE FieldDefaults(c)[f]]])

\* [validate_python(d) for d in action_dicts]; the first fault ends it and
\* is re-raised as ValueError(f"Failed to parse actions from dicts: {e}")
RECURSIVE ValidateAll(_, _)
ValidateAll(rs, acc) ==
  IF rs = <<>> THEN Ok(acc)
  ELSE LET v == validate_python(Head(rs))
       IN IF ~v.ok THEN v ELSE ValidateAll(Tail(rs), Append(acc, v.value))

dict_to_actions(action_dicts) == ValidateAll(action_dicts, <<>>)

\* ------------------------------ ActionLoader (config/action_loader.py)
\* action_class.__fields__['type'].default
TypeDefault(action_class) == action_class

normalize_action_config(action_config) ==
  IF "type" \notin DOMAIN action_config \/ action_config["type"] = ""
  THEN Err("missing_type", {"type"}, {})
  ELSE IF action_config["type"] \notin DOMAIN ACTION_REGISTRY
  THEN Err("unknown_type", {action_config["type"]}, DOMAIN ACTION_REGISTRY)
  ELSE Ok([action_config EXCEPT
             !["type"] = TypeDefault(ACTION_REGISTRY[action_config["type"]])])

\* [self._normalize_action_config(ac) for ac in actions_config]
RECURSIVE NormalizeAll(_, _)
NormalizeAll(rs, acc) ==
  IF rs = <<>> THEN Ok(acc)
  ELSE LET v == normalize_action_config(Head(rs))
       IN IF ~v.ok THEN v ELSE NormalizeAll(Tail(rs), Append(acc, v.value))

load_actions(actions_config) ==
  IF actions_config = <<>> THEN Err("no_actions", {"actions"}, {})
  ELSE LET normalized_configs == NormalizeAll(actions_config, <<>>)
       IN IF ~normalized_configs.ok THEN normalized_configs
          ELSE dict_to_actions(normalized_configs.value)

\* ------------------------------ YAMLBotLoader (core/yaml_bot_loader.py)
YAML_ACTION_REGISTRY ==
  [t \in {"login", "navigate", "click", "scrape", "download", "download_multiple",
          "submit_form", "logout", "alert"} |->
     CASE t = "login" -> "LoginAction"
       [] t = "navigate" -> "NavigateAction"
       [] t = "click" -> "ClickAction"
       [] t = "scrape" -> "ScrapeAction"
       [] t = "download" -> "DownloadAction"
       [] t = "download_multiple" -> "DownloadMultipleAction"
       [] t = "submit_form" -> "SubmitFormAction"
       [] t = "logout" -> "LogoutAction"
       [] t = "alert" -> "AlertAction"]

\* the modules rowdybottypiper.actions.<action_type> that exist
ActionModules ==
  {"login", "navigate", "click", "download", "download_multiple", "logout", "alert"}

\* ValueError(f"Unknown action type: {action_type}")
import_action_class(action_type) ==
  IF action_type \notin DOMAIN YAML_ACTION_REGISTRY \/ action_type = ""
  THEN Err("unknown_type", {action_type}, {})
  ELSE IF action_type \notin ActionModules
  THEN Err("import_error", {YAML_ACTION_REGISTRY[action_type]}, {})
  ELSE Ok(YAML_ACTION_REGISTRY[action_type])

\* parameters of __init__ of the classes in actions/navigate.py, click.py
LegacyRequired(c) ==
  CASE c = "NavigateAction" -> {"url"}
    [] c = "ClickAction" -> {"selector"}
    [] OTHER -> {}

LegacyOptional(c) ==
  CASE c = "NavigateAction" -> {"wait_time"}
    [] c = "ClickAction" -> {"by", "wait_time"}
    [] OTHER -> {}

\* action_config.pop('type'); action_class(**params)
create_action(action_config) ==
  IF "type" \notin DOMAIN action_config THEN Err("KeyError", {"type"}, {})
  ELSE LET cls == import_action_class(action_config["type"])
           params == DOMAIN action_config \ {"type"}
       IN IF ~cls.ok THEN cls
          ELSE LET unexpected == params \ (LegacyRequired(cls.value) \cup LegacyOptional(cls.value))
                   missing == LegacyRequired(cls.value) \ params
               IN IF unexpected # {} THEN Err("TypeError", unexpected, {})
                  ELSE IF missing # {} THEN Err("TypeError", missing, {})
                  ELSE Ok([variant |-> cls.value,
                           fields |-> [f \in params |-> action_config[f]]])

\* for action_config in actions: bot.add_action(self._create_action(copy));
\* return bot.  A fault leaves create_bot before the bot is returned.
RECURSIVE CreateAll(_, _)
CreateAll(rs, acc) ==
  IF rs = <<>> THEN Ok(acc)
  ELSE LET v == create_action(Head(rs))
       IN IF ~v.ok THEN v ELSE CreateAll(Tail(rs), Append(acc, v.value))

create_bot(actions_config) == CreateAll(actions_config, <<>>)

\* --------------------------------------- calls of the registry and loaders
\* the `type` values of the records of a configuration
TypeVals == {"navigate", "click", "bogus", ""}
\* class objects handed to get_action_type_name
Classes == {"NavigateAction", "ClickAction", "DownloadAction", "SubmitFormAction",
            "LoginAction", "AlertAction", "LogoutAction"}

\* action records: any of type, url and selector may be absent
ActionRecords ==
  {r \in UNION {[D -> TypeVals \cup {"http://a", "#b"}] : D \in SUBSET {"type", "url", "selector"}} :
     /\ "type" \in DOMAIN r => r["type"] \in TypeVals
     /\ "url" \in DOMAIN r => r["url"] = "http://a"
     /\ "selector" \in DOMAIN r => r["selector"] = "#b"}

RecordLists == UNION {[1..n -> ActionRecords] : n \in 0..MaxRecords}

notLoad == <<botVars, ctxVars, sharedVars, written, modVars, rateOp, cliVars, extVars>>

GetActionClass(action_type) ==
  /\ loadOp.op = "none"
  /\ loadOp' = [op |-> "get_action_class", arg |-> action_type,
                result |-> get_action_class(action_type)]
  /\ UNCHANGED notLoad

GetActionTypeName(action_class) ==
  /\ loadOp.op = "none"
  /\ loadOp' = [op |-> "get_action_type_name", arg |-> action_class,
                result |-> get_action_type_name(action_class)]
  /\ UNCHANGED notLoad

\* ActionLoader(path).load_actions() on a file holding these records
LoadActions(records) ==
  /\ loadOp.op = "none"
  /\ loadOp' = [op |-> "load_actions", records |-> records,
                result |-> load_actions(records)]
  /\ UNCHANGED notLoad

\* YAMLBotLoader(path).create_bot() on a file holding these records
CreateBot(records) ==
  /\ loadOp.op = "none"
  /\ loadOp' = [op |-> "create_bot", records |-> records,
                result |-> create_bot(records)]
  /\ UNCHANGED notLoad

\* ------------------------------------------- saving and loading again
\* BotSerializer.actions_to_dict: action.model_dump(mode='python')
model_dump(a) ==
  [f \in {"type"} \cup DOMAIN a.fields |->
     IF f = "type" THEN TypeDefault(a.variant) ELSE a.fields[f]]

\* action_dicts.index(action_dict): the first dict equal to it
IndexOf(dicts, d) == CHOOSE j \in 1..Len(dicts) : dicts[j] = d /\ \A h \in 1..(j - 1) : dicts[h] # d

\* for action_dict in action_dicts:
\*     friendly_name = ACTION_TYPE_NAMES.get(type(actions[action_dicts.index(action_dict)]))
\*     if friendly_name: action_dict['type'] = friendly_name
RECURSIVE FriendlyNames(_, _, _)
FriendlyNames(dicts, acts, k) ==
  IF k > Len(dicts) THEN dicts
  ELSE LET cls == acts[IndexOf(dicts, dicts[k])].variant
       IN IF cls \in DOMAIN ACTION_TYPE_NAMES
          THEN FriendlyNames([dicts EXCEPT ![k]["type"] = ACTION_TYPE_NAMES[cls]], acts, k + 1)
          ELSE FriendlyNames(dicts, acts, k + 1)

\* the type discriminators are written as they are
save_actions_to_yaml_raw(acts) ==
  [k \in 1..Len(acts) |-> model_dump(acts[k])]

\* the `actions` list save_actions_to_yaml writes; yaml.dump followed by
\* yaml.safe_load gives the same strings, booleans and None back
save_actions_to_yaml(acts) ==
  FriendlyNames([k \in 1..Len(acts) |-> model_dump(acts[k])], acts, 1)

\* the environment variable V: not set, or set to /srv
Envs == {"unset", "/srv"}

\* ActionLoader._substitute_env_vars on a string: ${V} is replaced by
\* os.getenv('V', ''), then os.path.expanduser is applied when the value
\* holds a '~'
substitute_env_vars(value, env) ==
  CASE value = "${V}/dl" -> IF env = "unset" THEN "/dl" ELSE "/srv/dl"
    [] value = "~/dl" -> "/home/u/dl"
    [] OTHER -> value

\* ActionLoader.__init__: _resolve_variables over the whole config
resolve_variables(dicts, env) ==
  [k \in 1..Len(dicts) |->
     [f \in DOMAIN dicts[k] |-> substitute_env_vars(dicts[k][f], env)]]

\* actions with valid field values
ValidActions ==
  {[variant |-> "NavigateAction", fields |-> [url |-> "http://a", save_dom |-> sd]] :
      sd \in {"False", "True"}}
  \cup
  {[variant |-> "ClickAction",
    fields |-> [selector |-> "#b", by |-> by, scroll_to_element |-> "True"]] :
      by \in {"CSS_SELECTOR", "XPATH"}}
  \cup
  {[variant |-> "DownloadAction",
    fields |-> [selector |-> "#b", by |-> "CSS_SELECTOR", scroll_to_element |-> "True",
                download_dir |-> dd, expected_filename |-> ef, timeout |-> "180",
                verify_download |-> "True"]] :
      dd \in {"dl", "~/dl", "${V}/dl"}, ef \in {"None", "f.pdf"}}

ActionLists == UNION {[1..n -> ValidActions] : n \in 1..MaxRecords}

\* ActionLoader.save_actions_to_yaml(actions, path) and then
\* ActionLoader(path).load_actions()
SaveAndLoad(acts, env) ==
  /\ loadOp.op = "none"
  /\ loadOp' = [op |-> "save_and_load", actions |-> acts, env |-> env,
                saved |-> save_actions_to_yaml(acts),
                result |-> load_actions(resolve_variables(save_actions_to_yaml(acts), env))]
  /\ UNCHANGED notLoad

NextLoad ==
  \/ \E t \in TypeVals \cup DOMAIN ACTION_REGISTRY : GetActionClass(t)
  \/ \E c \in Classes : GetActionTypeName(c)
  \/ \E records \in RecordLists : LoadActions(records)
  \/ \E records \in RecordLists : CreateBot(records)
  \/ \E acts \in ActionLists, env \in Envs : SaveAndLoad(acts, env)

SpecLoad == Init /\ [][NextLoad]_vars

\* --------------------------------------- the runners and their loaders
\* Action.__init__(self, name, retry_count=3, retry_delay=2, ...)
DefaultRetryCount == 3
DefaultRetryDelay == 2

\* records of a JSON configuration carry the tag of the class itself
JsonRecords ==
  {[type |-> "NavigateAction", url |-> "http://a"], [type |-> "NavigateAction"],
   [type |-> "ClickAction", selector |-> "#b"], [type |-> "navigate", url |-> "http://a"]}

RunnerRecordLists ==
  UNION {[1..n -> ActionRecords \cup JsonRecords] : n \in 0..MaxRecords}

\* a record of a YAML configuration that is not valid: no type, a type that
\* is not registered, or a required field of its class missing
InvalidYamlRecord(r) ==
  \/ "type" \notin DOMAIN r
  \/ r["type"] \notin DOMAIN ACTION_REGISTRY
  \/ Required(ACTION_REGISTRY[r["type"]]) \ DOMAIN r # {}

\* the same for a record of a JSON configuration
InvalidJsonRecord(r) ==
  \/ "type" \notin DOMAIN r
  \/ r["type"] \notin UnionTags
  \/ Required(r["type"]) \ DOMAIN r # {}

AnyInvalid(source, records) ==
  \E k \in 1..Len(records) :
    IF source = "yaml" THEN InvalidYamlRecord(records[k])
    ELSE InvalidJsonRecord(records[k])

\* run_from_yaml loads with ActionLoader.create_bot (load_actions);
\* run_from_json_file and run_from_json_string with BotSerializer.dict_to_actions
runner_load(source, records) ==
  IF source = "yaml" THEN load_actions(records) ELSE dict_to_actions(records)

\* BotRunner.run_from_yaml / run_from_json_file / run_from_json_string up
\* to bot.run(): the actions are loaded, then the Bot is built and every
\* action added to it.  A fault while loading is caught by the runner,
\* which returns False.  The history keeps whether a record was invalid and
\* how many there were, and the records themselves when the load failed.
LoadRecords(records) ==
  /\ cpc \in {"yaml", "json_file", "json_string"}
  /\ LET r == runner_load(cpc, records)
         n == Len(r.value)
     IN /\ loadOp' = [op |-> "runner", source |-> cpc, ok |-> r.ok,
                      n |-> Len(records), invalid |-> AnyInvalid(cpc, records),
                      records |-> IF r.ok THEN <<>> ELSE records]
        /\ IF r.ok
           THEN /\ cpc' = "run"
                /\ heap' = [k \in 1..n |-> NewAction(DefaultRetryCount, DefaultRetryDelay)]
                /\ actions' = [k \in 1..n |-> k]
                /\ outcomes' = [k \in 1..n |-> <<>>]
                /\ sleeps' = [k \in 1..n |-> <<>>]
                /\ results' = [k \in 1..n |-> "none"]
                /\ UNCHANGED exit_status
           ELSE /\ cpc' = "exit"
                /\ exit_status' = ExitStatus(FALSE)
                /\ UNCHANGED <<heap, actions, outcomes, sleeps, results>>
  /\ UNCHANGED <<bm, driver, bpc, i, apc, attempt, aret, ret, raised, now,
                 started, setupDone, teardowns, quits, lastExc, faulted>>
  /\ UNCHANGED <<ctxVars, sharedVars, written, modVars, rateOp, extVars>>

\* success = bot.run() on the Bot the runner built
BotRun ==
  /\ cpc = "run"
  /\ Next
  /\ actions' = actions

NextRunner ==
  \/ \E config_file \in ConfigFiles, config \in Configs : RunCommand(config_file, config)
  \/ /\ cpc \in {"yaml", "json_file", "json_string"}
     /\ \E records \in RunnerRecordLists : LoadRecords(records)
  \/ BotRun
  \/ RunReturned

SpecRunner == Init /\ [][NextRunner]_vars

\* ------------------------------------------------- interactive shell
\* the argument of `load`: nothing, a path that does not exist, or a file
ShellFiles == {"", "absent.yaml", "bot.yaml", "bot.json", "bot.txt"}

\* the `bot` section of the file: absent, or one of two settings
BotSections == {"None", "botA", "botB"}

ShellRecords ==
  {[type |-> "navigate", url |-> "http://a"],
   [type |-> "NavigateAction", url |-> "http://a"],
   [type |-> "bogus"]}

ShellRecordLists == UNION {[1..n -> ShellRecords] : n \in 0..MaxRecords}

\* the outcome of a command: the state of the shell after it, and whether
\* it reported an error
Loaded(sh) == [shell |-> sh, failed |-> FALSE]
LoadFailed(sh) == [shell |-> sh, failed |-> TRUE]

\* InteractiveShell.do_load.  parses: the file is readable YAML / JSON;
\* bot: its `bot` section; records: its `actions`.
do_load(sh, filepath, parses, bot, records) ==
  IF filepath = "" \/ ~PathExists(filepath) THEN LoadFailed(sh)
  ELSE IF Suffix(filepath) \in {".yaml", ".yml"}
  THEN \* loader = ActionLoader(filepath); self.actions = loader.load_actions()
       LET r == load_actions(records)
       IN IF ~parses \/ ~r.ok THEN LoadFailed(sh)
          ELSE Loaded([actions |-> r.value,
                       bot_config |-> IF bot = "None" THEN "{}" ELSE bot,
                       config_file |-> filepath])
  ELSE IF Suffix(filepath) = ".json"
  THEN IF ~parses THEN LoadFailed(sh)
       ELSE \* self.bot_config = config.get('bot', self.bot_config), and
            \* only then self.actions = BotSerializer.dict_to_actions(...)
            LET sh1 == [sh EXCEPT !.bot_config = IF bot = "None" THEN @ ELSE bot]
                r == dict_to_actions(records)
            IN IF ~r.ok THEN LoadFailed(sh1)
               ELSE Loaded([sh1 EXCEPT !.actions = r.value, !.config_file = filepath])
  ELSE LoadFailed(sh)

notShell == <<botVars, ctxVars, sharedVars, written, modVars, rateOp, cliVars,
              loadOp, reruns, loginVars, dl>>

\* the command `load <filepath>`
DoLoad(filepath, parses, bot, records) ==
  /\ shellOp.n < MaxOps
  /\ LET r == do_load(shell, filepath, parses, bot, records)
     IN /\ shell' = r.shell
        /\ shellOp' = [op |-> "load", n |-> shellOp.n + 1, filepath |-> filepath,
                       before |-> shell, failed |-> r.failed]
  /\ UNCHANGED notShell

NextShell ==
  \E filepath \in ShellFiles, parses \in BOOLEAN, bot \in BotSections,
     records \in ShellRecordLists : DoLoad(filepath, parses, bot, records)

SpecShell == Init /\ [][NextShell]_vars

\* ------------------------------------------------------------ helpers
Objs == 1..Len(heap)

\* Action.run of a is between its entry and its return
Running(a) == bpc = "run" /\ a = Cur

NoTrue(a) == \A k \in 1..Len(outcomes[a]) : outcomes[a][k] # "true"

FailedNonFinal(a) ==
  {k \in 1..Len(outcomes[a]) : outcomes[a][k] # "true" /\ k < heap[a].retry_count}

\* ----------------------------------------------------------------- C1
\* C1: an action with retry_count = N >= 1 whose execute fails on every
\* attempt (returns False or raises): once run has returned, execute was
\* invoked exactly N times, metrics.attempts = N, status = FAILED and run
\* returned False.
C1_AllAttemptsFail ==
  \A a \in Objs :
    (results[a] # "none" /\ heap[a].retry_count >= 1 /\ NoTrue(a))
      => /\ Len(outcomes[a]) = heap[a].retry_count
         /\ heap[a].metrics.attempts = heap[a].retry_count
         /\ heap[a].metrics.status = "FAILED"
         /\ results[a] = "False"

C1_Witness ==
  \E a \in Objs :
    /\ heap[a].retry_count = 2
    /\ results[a] = "False"
    /\ outcomes[a] = <<"false", "raise">>
    /\ heap[a].metrics.attempts = 2

\* ----------------------------------------------------------------- C2
\* C2: when execute first returns True on attempt k, run returns True at
\* once with metrics.attempts = k and status = SUCCESS, and execute is not
\* invoked again: a True outcome is always the last outcome of its action.
C2_SuccessStopsRetrying ==
  \A a \in Objs : \A k \in 1..Len(outcomes[a]) :
    outcomes[a][k] = "true"
      => /\ k = Len(outcomes[a])
         /\ k <= heap[a].retry_count
         /\ results[a] = "True"
         /\ heap[a].metrics.attempts = k
         /\ heap[a].metrics.status = "SUCCESS"

C2_Witness ==
  /\ bpc = "done"
  /\ \E a \in Objs :
       /\ heap[a].retry_count = 2
       /\ outcomes[a] = <<"true">>
       /\ results[a] = "True"
  /\ \E a \in Objs :
       /\ heap[a].retry_count = 2
       /\ outcomes[a] = <<"raise", "true">>
       /\ heap[a].metrics.attempts = 2

\* ----------------------------------------------------------------- C3
\* C3: fail-fast.  Once Action.run returned False for the action at
\* position p, no action at a later position is ever entered or executed,
\* Bot.run never returns True, and when it has returned it returned False.
C3_FailFast ==
  \A p \in 1..Len(actions) :
    results[actions[p]] = "False"
      => /\ \A q \in (p + 1)..Len(actions) :
              /\ outcomes[actions[q]] = <<>>
              /\ results[actions[q]] = "none"
              /\ \A k \in 1..Len(started) : started[k] # actions[q]
         /\ ret # "True"
         /\ (bpc = "done" => ret = "False")

C3_Witness ==
  /\ bpc = "done"
  /\ Len(actions) = 2
  /\ results[actions[1]] = "False"
  /\ Len(outcomes[actions[1]]) = 2
  /\ heap[actions[2]].retry_count >= 1
  /\ outcomes[actions[2]] = <<>>
  /\ ret = "False"

\* ----------------------------------------------------------------- C4
\* C4: actions run strictly in the order of the add_action calls (the k-th
\* action entered is the k-th action added), an action is entered only
\* after the previous one's run returned True, and at most one action is
\* inside run at any time.
C4_InOrder ==
  /\ Len(started) <= Len(heap)
  /\ \A k \in 1..Len(started) :
       /\ started[k] = k
       /\ (k > 1 => results[started[k - 1]] = "True")
  /\ Cardinality({a \in Objs : (\E k \in 1..Len(started) : started[k] = a)
                                /\ results[a] = "none"}) <= 1
  /\ \A a \in Objs : Len(outcomes[a]) > 0 => \E k \in 1..Len(started) : started[k] = a

C4_Witness ==
  /\ bpc = "done"
  /\ started = <<1, 2>>
  /\ \A a \in Objs : Len(outcomes[a]) = 2

\* ----------------------------------------------------------------- C5
\* C5: on every path out of Bot.run teardown_driver is invoked exactly
\* once, after the last execute attempt and before run returns, and a
\* driver that was created has had quit() called on it.
C5_TeardownOnce ==
  /\ [](bpc = "done" => teardowns = 1)
  /\ [](bpc # "done" => teardowns = 0)
  /\ [](bpc = "done" /\ driver # "none" => quits = 1)
  /\ [](quits <= teardowns)
  /\ [][teardowns > 0 => outcomes' = outcomes /\ started' = started]_vars

C5_Witness ==
  /\ bpc = "done"
  /\ teardowns = 1
  /\ quits = 1
  /\ ret = "False"
  /\ driver = "closed"
  /\ Len(started) = 2

\* ----------------------------------------------------------------- C6
\* C6: whenever Bot.run has returned, BotMetrics.end was called (end_time
\* is set) and overall_success equals the returned boolean.
C6_SummaryAlways ==
  bpc = "done"
    => /\ ret \in {"True", "False"}
       /\ bm.end_time # NoTime
       /\ bm.overall_success = (ret = "True")

C6_Witness ==
  /\ bpc = "done"
  /\ ret = "False"
  /\ bm.end_time # NoTime
  /\ bm.failed_actions = 1
  /\ ~bm.overall_success

\* ----------------------------------------------------------------- C7
\* C7: if setup_driver raises, no action is entered or executed, and
\* Bot.run returns False with overall_success = False and
\* total_actions = 0, after invoking teardown_driver, raising nothing.
C7_SetupFault ==
  setupDone \in {"no_driver", "driver_then_fault"}
    => /\ started = <<>>
       /\ \A a \in Objs : outcomes[a] = <<>>
       /\ ~raised
       /\ bm.total_actions = 0
       /\ ~bm.overall_success
       /\ ret # "True"
       /\ (bpc = "done" => ret = "False" /\ teardowns = 1)

C7_Witness ==
  /\ bpc = "done"
  /\ setupDone = "driver_then_fault"
  /\ Len(actions) = 2
  /\ ret = "False"
  /\ quits = 1

\* ----------------------------------------------------------------- C8
\* C8: if the run of every added action returned True (for a workflow
\* without actions: if the loop was reached), Bot.run returns True with
\* overall_success = True, total_actions = successful_actions = number of
\* added actions and failed_actions = 0.
C8_AllSuccess ==
  (/\ bpc = "done"
   /\ \A a \in Objs : results[a] = "True"
   /\ (Len(heap) >= 1 \/ setupDone = "ok"))
    => /\ ret = "True"
       /\ bm.overall_success
       /\ bm.total_actions = Len(actions)
       /\ bm.successful_actions = Len(actions)
       /\ bm.failed_actions = 0
       /\ Len(actions) = Len(heap)

C8_Witness ==
  /\ bpc = "done"
  /\ Len(heap) = 2
  /\ \A a \in Objs : results[a] = "True"
  /\ outcomes[1] = <<"false", "true">>
  /\ bm.successful_actions = 2

C10_SleepBetweenAttempts ==
  \A a \in Objs :
    /\ (Running(a) /\ apc = "start" /\ attempt > 0 /\ attempt < heap[a].retry_count)
         => /\ heap[a].metrics.status = "RETRYING"
            /\ heap[a].metrics.error_message # "None"
    /\ ~(Running(a) /\ apc = "sleep")
         => /\ Len(sleeps[a]) = Cardinality(FailedNonFinal(a))
            /\ \A k \in 1..Len(sleeps[a]) : sleeps[a][k] = heap[a].retry_delay

\* ---------------------------------------------------------------- C11
\* Action.run of a has just returned to Bot.run
JustReturned(a) == bpc = "returned" /\ a = Cur

LastOutcome(a) == outcomes[a][Len(outcomes[a])]

\* C11 (as stated): when Action.run returns False, error_message describes
\* the final attempt: if that attempt raised, error_message is the message
\* of that fault verbatim, never an earlier one and never empty; if it
\* returned False, error_message is the returned-False reason.
C11_FinalMessageNeverEmpty ==
  \A a \in Objs :
    (JustReturned(a) /\ results[a] = "False" /\ Len(outcomes[a]) > 0)
      => /\ LastOutcome(a) = "raise"
              => /\ heap[a].metrics.error_message = lastExc
                 /\ heap[a].metrics.error_message # "None"
                 /\ heap[a].metrics.error_message # ""
         /\ LastOutcome(a) = "false"
              => heap[a].metrics.error_message = "Action returned False after all retries"

\* C11 (amended): as above, except that the message is str(e) of the final
\* fault whatever it is: it is never None, and it is the empty string
\* exactly when the final fault carries no message.
C11_FinalMessage ==
  \A a \in Objs :
    (JustReturned(a) /\ results[a] = "False" /\ Len(outcomes[a]) > 0)
      => /\ LastOutcome(a) = "raise"
              => /\ heap[a].metrics.error_message = lastExc
                 /\ heap[a].metrics.error_message # "None"
                 /\ lastExc \in ExcMsgs
         /\ LastOutcome(a) = "false"
              => heap[a].metrics.error_message = "Action returned False after all retries"

C11_Witness ==
  \E a \in Objs :
    /\ JustReturned(a)
    /\ results[a] = "False"
    /\ outcomes[a] = <<"raise", "raise">>
    /\ Len(sleeps[a]) = 1
    /\ lastExc = ""
    /\ heap[a].metrics.error_message = ""

\* ---------------------------------------------------------------- C12
WasStarted(a) == \E k \in 1..Len(started) : started[k] = a

\* C12: after Action.run returned the status is never RETRYING: it is
\* SUCCESS exactly when run returned True and FAILED exactly when run
\* returned False; an action whose run was never invoked keeps status
\* SKIPPED and attempts = 0.
C12_StatusMatchesResult ==
  \A a \in Objs :
    /\ results[a] # "none"
         => /\ heap[a].metrics.status # "RETRYING"
            /\ (heap[a].metrics.status = "SUCCESS") = (results[a] = "True")
            /\ (heap[a].metrics.status = "FAILED") = (results[a] = "False")
    /\ ~WasStarted(a)
         => /\ heap[a].metrics.status = "SKIPPED"
            /\ heap[a].metrics.attempts = 0

\* ---------------------------------------------------------------- C13
\* C13: every action has retry_count >= 1 and retry_delay >= 0, so a run
\* always makes at least one attempt: a run that returned False with
\* attempts = 0 and status SKIPPED is unreachable.
C13_RetryCountPositive ==
  \A a \in Objs :
    /\ heap[a].retry_count >= 1
    /\ heap[a].retry_delay >= 0
    /\ results[a] # "none"
         => /\ heap[a].metrics.attempts >= 1
            /\ heap[a].metrics.status # "SKIPPED"

\* ---------------------------------------------------------------- C14
Returned == {a \in Objs : results[a] # "none"}

\* positions of the recorded metrics whose status is st
Recorded(st) ==
  {k \in 1..Len(bm.action_metrics) : heap[bm.action_metrics[k]].metrics.status = st}

\* C14: in every state of a run successful_actions + failed_actions <=
\* total_actions; total_actions is the number of actions whose run has
\* returned (one increment per run, made by the statement that follows the
\* return); each such action is counted in at most one of
\* successful_actions and failed_actions.
C14_CountersConsistent ==
  /\ bm.successful_actions + bm.failed_actions <= bm.total_actions
  /\ bm.total_actions = Len(bm.action_metrics)
  /\ bm.total_actions = Cardinality(Returned) - (IF bpc = "returned" THEN 1 ELSE 0)
  /\ \A k, l \in 1..Len(bm.action_metrics) :
       bm.action_metrics[k] = bm.action_metrics[l] => k = l
  /\ \A k \in 1..Len(bm.action_metrics) : bm.action_metrics[k] \in Returned
  /\ bm.successful_actions = Cardinality(Recorded("SUCCESS"))
  /\ bm.failed_actions = Cardinality(Recorded("FAILED"))

C14_Witness ==
  /\ bpc = "done"
  /\ bm.total_actions = 2
  /\ bm.successful_actions = 1
  /\ bm.failed_actions = 1

\* ---------------------------------------------------------------- C15
\* C15: after Bot.run returned, BotMetrics.action_metrics holds exactly the
\* metrics of the executed prefix of the action list, once each, in
\* execution order, including the failing action (attempts = retry_count,
\* status FAILED); the actions after the failing one have no entry and
\* keep attempts = 0 and status SKIPPED.
C15_MetricsOfExecutedPrefix ==
  bpc = "done"
    => /\ bm.action_metrics = started
       /\ \A k \in 1..Len(started) : started[k] = actions[k]
       /\ \A p \in 1..Len(actions) :
            results[actions[p]] = "False"
              => /\ heap[actions[p]].metrics.attempts = heap[actions[p]].retry_count
                 /\ heap[actions[p]].metrics.status = "FAILED"
                 /\ Len(bm.action_metrics) = p
                 /\ \A q \in (p + 1)..Len(actions) :
                      /\ heap[actions[q]].metrics.attempts = 0
                      /\ heap[actions[q]].metrics.status = "SKIPPED"

\* ---------------------------------------------------------------- C16
\* driver.quit() raised during teardown_driver
QuitFaulted == bpc = "done" /\ quits = 1 /\ driver = "open"

\* C16: a fault raised by driver.quit() is caught: nothing is raised out of
\* Bot.run, and teardown changes neither the value run returns nor the
\* recorded overall_success.
C16_TeardownFaultSuppressed ==
  /\ [](QuitFaulted => /\ ~raised
                       /\ ret \in {"True", "False"}
                       /\ bm.overall_success = (ret = "True"))
  /\ [][bpc = "finally" => /\ ret' = ret
                           /\ raised' = raised
                           /\ bm' = bm]_vars

C16_Witness ==
  /\ QuitFaulted
  /\ ret = "True"
  /\ bm.overall_success
  /\ bm.total_actions = 1

\* ---------------------------------------------------------------- C18
\* the order of the positions of Bot.run
RunOrder ==
  {<<"created", "created">>, <<"created", "setup">>, <<"setup", "loop">>,
   <<"setup", "except">>, <<"loop", "run">>, <<"run", "run">>,
   <<"run", "returned">>, <<"returned", "loop">>, <<"returned", "finally">>,
   <<"loop", "finally">>, <<"except", "finally">>, <<"finally", "done">>}

\* C18: the run goes Created -> Initializing -> Running -> terminal, and
\* execute is invoked only after setup_driver succeeded and before
\* teardown: never before acquisition, after an acquisition fault or after
\* teardown.
C18_ExecuteOnlyWhileRunning ==
  /\ [][(<<bpc, bpc'>> \in RunOrder)]_vars
  /\ [][((\E a \in Objs : Len(outcomes'[a]) > Len(outcomes[a])) \/ started' # started)
          => /\ setupDone = "ok"
             /\ driver = "open"
             /\ teardowns = 0
             /\ quits = 0]_vars
  /\ [](bpc \in {"loop", "run", "returned"} => setupDone = "ok" /\ driver = "open")

C18_Witness ==
  /\ bpc = "done"
  /\ setupDone = "ok"
  /\ driver = "closed"
  /\ \A a \in Objs : Len(outcomes[a]) >= 1
  /\ Len(heap) = 2

\* ---------------------------------------------------------------- C17
\* C17: a fault raised inside the loop of Bot.run outside the try of
\* Action.run is caught by Bot.run: nothing is raised out of run, run
\* returns False with overall_success = False, no further action is
\* entered or executed, and teardown and BotMetrics.end still happen.
C17_LoopFaultCaught ==
  /\ [](faulted => /\ ~raised
                   /\ ret # "True"
                   /\ ~bm.overall_success
                   /\ (bpc = "done" => /\ ret = "False"
                                       /\ teardowns = 1
                                       /\ bm.end_time # NoTime))
  /\ [][faulted => /\ started' = started
                   /\ \A a \in Objs : outcomes'[a] = outcomes[a]]_vars

C17_Witness ==
  /\ bpc = "done"
  /\ faulted
  /\ Len(actions) = 2
  /\ outcomes[1] = <<"raise">>
  /\ heap[1].retry_count = 2
  /\ results[1] = "none"
  /\ outcomes[2] = <<>>
  /\ ret = "False"
  /\ quits = 1

\* ---------------------------------------------------------------- C19
\* positions of the writes that wrote key
WritesOf(key) == {n \in 1..Len(wlog) : key \in DOMAIN wlog[n]}

\* the value of the most recent write of key
LastWritten(key) ==
  LET n == CHOOSE m \in WritesOf(key) : \A l \in WritesOf(key) : l <= m
  IN wlog[n][key]

\* C19: for any sequence of set / update / get in one run, get(key,
\* default) returns default for a key never written and otherwise the most
\* recently written value of the key, and leaves the stored values as they
\* were.
C19_GetReturnsLastWrite ==
  lastOp.op = "get"
    => /\ lastOp.result = IF WritesOf(lastOp.key) = {} THEN lastOp.default
                          ELSE LastWritten(lastOp.key)
       /\ ctx = lastOp.before

C19_Witness ==
  /\ lastOp.op = "get"
  /\ lastOp.n = 3
  /\ Len(wlog) = 2
  /\ lastOp.key \in DOMAIN wlog[1] \cap DOMAIN wlog[2]
  /\ wlog[1][lastOp.key] # wlog[2][lastOp.key]
  /\ lastOp.result = wlog[2][lastOp.key]

\* ---------------------------------------------------------------- C20
\* C20: update(data) is applied as a whole in one step: afterwards every
\* key of data reads its new value, every other key is as before (present
\* or absent, same value), so no state with only part of data applied is
\* there to be observed.
C20_UpdateWhole ==
  lastOp.op = "update"
    => \A k \in Keys :
         IF k \in DOMAIN lastOp.data
         THEN /\ k \in DOMAIN ctx
              /\ ctx_get(ctx, k, "None") = lastOp.data[k]
         ELSE /\ (k \in DOMAIN ctx) = (k \in DOMAIN lastOp.before)
              /\ ctx_get(ctx, k, "None") = ctx_get(lastOp.before, k, "None")

C20_Witness ==
  /\ lastOp.op = "update"
  /\ DOMAIN lastOp.data = Keys
  /\ DOMAIN lastOp.before = {"k1"}
  /\ lastOp.before["k1"] # lastOp.data["k1"]
  /\ ctx = lastOp.data

\* ---------------------------------------------------------------- C21
\* C21: a Context is private to one run: what get() returns through one
\* Context instance is decided by the writes made through that instance
\* alone, never by a write made through another instance.
C21_ContextPrivate ==
  sharedOp.op = "get" =>
    sharedOp.result =
      ctx_get(ownWrites[sharedOp.c], sharedOp.key, sharedOp.default)

\* ---------------------------------------------------------------- C22
\* C22: no rollback.  When Bot.run has returned False, every key written
\* by an execute() call of the run, whether the attempt succeeded or
\* failed, still holds the value last written to it.
C22_NoRollback ==
  (bpc = "done" /\ ret = "False") =>
    \A k \in DOMAIN written :
      k \in DOMAIN ctx /\ ctx_get(ctx, k, "None") = written[k]

\* the first action succeeded after writing k1, the second wrote k2 in an
\* attempt that failed, and the run returned False
C22_Witness ==
  /\ bpc = "done" /\ ret = "False"
  /\ Len(actions) = 2 /\ actions[1] # actions[2]
  /\ results[actions[1]] = "True" /\ results[actions[2]] = "False"
  /\ NoTrue(actions[2])
  /\ DOMAIN written = {"k1", "k2"}
  /\ DOMAIN ctx = {"k1", "k2"}

\* ---------------------------------------------------------------- C26
\* C26: registering a name that is already registered with a different
\* entry fails with a configuration error and leaves the existing mapping
\* unchanged; a registration never replaces an existing entry.
C26_NoSilentReplace ==
  (/\ lastReg.op = "register"
   /\ lastReg.name \in DOMAIN lastReg.before
   /\ lastReg.before[lastReg.name] # lastReg.module)
  => (lastReg.raised /\ modules = lastReg.before)

\* ---------------------------------------------------------------- C29
\* the step of Action.run that enters an attempt (self.metrics.start())
AttemptBegins == bpc = "run" /\ apc = "start" /\ apc' = "exec"
\* the step of Action.run that ends an attempt (self.metrics.end(...))
AttemptEnds == bpc = "run" /\ apc = "exec" /\ apc' # "exec"

\* C29: the metrics are restarted at the start of each attempt.  Entering an
\* attempt sets startTime to the current time and adds one to attempts;
\* ending it records duration = endTime - the startTime of that attempt; so
\* when Action.run returns the duration is that of the latest attempt only
\* and attempts counts every attempt of the run.
C29_DurationOfLatestAttempt ==
  /\ [][AttemptBegins =>
          /\ heap'[Cur].metrics.start_time = now
          /\ heap'[Cur].metrics.attempts = heap[Cur].metrics.attempts + 1]_vars
  /\ [][AttemptEnds =>
          /\ heap'[Cur].metrics.start_time = heap[Cur].metrics.start_time
          /\ heap'[Cur].metrics.end_time = now'
          /\ heap'[Cur].metrics.duration = now' - heap[Cur].metrics.start_time]_vars
  /\ [](\A a \in Objs : JustReturned(a) =>
          /\ heap[a].metrics.attempts = Len(outcomes[a])
          /\ Len(outcomes[a]) > 0 =>
                heap[a].metrics.duration =
                  heap[a].metrics.end_time - heap[a].metrics.start_time)

\* run() returned after two attempts with a sleep of 2 seconds between
\* them; the duration is shorter than the time since the first attempt
C29_Witness ==
  \E a \in Objs :
    /\ JustReturned(a)
    /\ heap[a].metrics.attempts = 2
    /\ sleeps[a] = <<2>>
    /\ heap[a].metrics.duration < heap[a].metrics.end_time - (now - 4)
    /\ heap[a].metrics.duration = 1

C30_ExitStatus ==
  cpc = "exit" =>
    /\ exit_status \in {0, 1}
    /\ exit_status = 0 <=> (bpc = "done" /\ ret = "True")

\* exit 0 after a run of two actions
C30_Witness ==
  /\ cpc = "exit" /\ exit_status = 0
  /\ Len(actions) = 2 /\ bm.successful_actions = 2

\* exit 1 after a run in which an action failed
C30_WitnessFailed ==
  /\ cpc = "exit" /\ exit_status = 1
  /\ bpc = "done" /\ bm.failed_actions = 1

\* ---------------------------------------------------------------- C23
\* a record of the list has a type that the registry does not hold
HasUnregistered(records, registry) ==
  \E k \in 1..Len(records) :
    /\ "type" \in DOMAIN records[k]
    /\ records[k]["type"] # ""
    /\ records[k]["type"] \notin DOMAIN registry

\* C23: through every loading entry point (get_action_class, ActionLoader,
\* YAMLBotLoader) a record whose type is not registered makes the load fail
\* without constructing an action, and the unknown-action-type error lists
\* all the registered type tags.
C23_UnknownTypeListsTags ==
  /\ (loadOp.op = "get_action_class" /\ loadOp.arg \notin DOMAIN ACTION_REGISTRY) =>
        /\ ~loadOp.result.ok
        /\ loadOp.result.kind = "unknown_type"
        /\ loadOp.result.listed = DOMAIN ACTION_REGISTRY
  /\ (loadOp.op = "load_actions" /\ HasUnregistered(loadOp.records, ACTION_REGISTRY)) =>
        /\ ~loadOp.result.ok /\ loadOp.result.value = <<>>
        /\ loadOp.result.kind = "unknown_type" =>
              loadOp.result.listed = DOMAIN ACTION_REGISTRY
  /\ (loadOp.op = "create_bot" /\ HasUnregistered(loadOp.records, YAML_ACTION_REGISTRY)) =>
        /\ ~loadOp.result.ok /\ loadOp.result.value = <<>>
        /\ loadOp.result.kind = "unknown_type" =>
              loadOp.result.listed = DOMAIN YAML_ACTION_REGISTRY

\* ---------------------------------------------------------------- C24
\* the record has no type field, or lacks a required field of its class
LacksField(r, registry, required(_)) ==
  \/ "type" \notin DOMAIN r
  \/ /\ r["type"] \in DOMAIN registry
     /\ required(registry[r["type"]]) \ DOMAIN r # {}

\* what is wrong with the record: the type field, its type, or its fields
Offending(r, registry, required(_), allowed(_)) ==
  IF "type" \notin DOMAIN r \/ r["type"] = "" THEN {"type", ""}
  ELSE IF r["type"] \notin DOMAIN registry THEN {r["type"]}
  ELSE (required(registry[r["type"]]) \ DOMAIN r)
       \cup ((DOMAIN r \ {"type"}) \ allowed(registry[r["type"]]))

AnyField(c) == {"type", "url", "selector"}
LegacyParams(c) == LegacyRequired(c) \cup LegacyOptional(c)

C25_RegistryBijection ==
  /\ \A t1 \in DOMAIN ACTION_REGISTRY, t2 \in DOMAIN ACTION_REGISTRY :
        ACTION_REGISTRY[t1] = ACTION_REGISTRY[t2] => t1 = t2
  /\ (loadOp.op = "get_action_class" /\ loadOp.result.ok) =>
        get_action_type_name(loadOp.result.value) = Ok(loadOp.arg)
  /\ (loadOp.op = "get_action_type_name" /\ loadOp.result.ok) =>
        get_action_class(loadOp.result.value) = Ok(loadOp.arg)

C25_Witness ==
  /\ loadOp.op = "get_action_class"
  /\ loadOp.arg = "click"
  /\ loadOp.result = Ok("ClickAction")

\* ---------------------------------------------------------------- C27
\* C27: round trip.  Saving a list of actions (with the conversion of the
\* type to the friendly name) and loading the result (with the
\* normalisation of the friendly name) yields actions of the same classes,
\* equal in every field.
C27_RoundTrip ==
  loadOp.op = "save_and_load" =>
    /\ loadOp.result.ok
    /\ loadOp.result.value = loadOp.actions

\* ---------------------------------------------------------------- C31
\* C31: once Bot.run was invoked it terminates, with teardown_driver done
\* once, and at every moment execute() was invoked at most retry_count times
\* for each action, so at most the sum of the retry counts in total.
C31_Terminates ==
  /\ [](\A a \in Objs : Len(outcomes[a]) <= heap[a].retry_count)
  /\ (bpc # "created") ~> (bpc = "done" /\ teardowns = 1)

\* a run that ended after an action used all of its two attempts
C31_Witness ==
  /\ bpc = "done"
  /\ teardowns = 1
  /\ \E a \in Objs : heap[a].retry_count = 2 /\ Len(outcomes[a]) = 2

\* ---------------------------------------------------------------- C32
\* C32: when a run's metrics are reported, every action in them has
\* attempts <= retry_count and attempts = the number of execute() calls made
\* for it in that run, also when the same action objects are run again.
C32_AttemptsPerRun ==
  bpc \in {"finally", "done"} =>
    \A k \in 1..Len(bm.action_metrics) :
      LET a == bm.action_metrics[k]
      IN /\ heap[a].metrics.attempts <= heap[a].retry_count
         /\ heap[a].metrics.attempts = Len(outcomes[a])

\* ---------------------------------------------------------------- C33
\* C33: when Action.run returned True the action's error_message is None,
\* whatever earlier attempts recorded; after run returned, an error_message
\* is there only with status FAILED.
C33_MessageClearedOnSuccess ==
  \A a \in Objs :
    /\ results[a] = "True" => heap[a].metrics.error_message = "None"
    /\ (results[a] # "none" /\ heap[a].metrics.error_message # "None") =>
          heap[a].metrics.status = "FAILED"

\* run returned True after a first attempt that raised with a message
C33_Witness ==
  \E a \in Objs :
    /\ results[a] = "True"
    /\ Len(outcomes[a]) = 2
    /\ outcomes[a][1] = "raise"
    /\ heap[a].metrics.error_message = "None"
    /\ heap[a].metrics.status = "SUCCESS"

\* ---------------------------------------------------------------- C34
\* the success indicator was found in this attempt
Verified(inp) == inp.v1 \/ (inp.retry_with_refresh /\ inp.v2)

LoggedIn == "logged_in" \in DOMAIN ctx /\ ctx["logged_in"] = "True"

\* C34: a LoginAction attempt that returned True verified the login and
\* leaves logged_in = True and session_active = True; an attempt that
\* returned False or raised leaves the context as it was; a LogoutAction
\* attempt that returned leaves logged_in = False and session_active = False.
C34_LoginFlags ==
  /\ authOp.op = "login" =>
        /\ authOp.result = "True" =>
              Verified(authOp.inp) /\ LoggedIn /\ session_active
        /\ authOp.result # "True" =>
              ctx = authOp.data /\ session_active = authOp.session_active
        /\ (LoggedIn /\ session_active) =>
              \/ authOp.result = "True"
              \/ ctx = authOp.data /\ session_active = authOp.session_active
  /\ (authOp.op = "logout" /\ authOp.result = "True") =>
        /\ ctx["logged_in"] = "False"
        /\ ~session_active

\* after a logout, a login whose indicator shows up only after the refresh
C34_Witness ==
  /\ authOp.op = "login"
  /\ authOp.result = "True"
  /\ ~authOp.inp.v1
  /\ authOp.inp.v2
  /\ "logged_in" \in DOMAIN authOp.data
  /\ authOp.data["logged_in"] = "False"
  /\ ~authOp.session_active
  /\ LoggedIn
  /\ session_active

\* ---------------------------------------------------------------- C35
\* C35: when a record of the configuration is invalid the runner never
\* calls Bot.run: no driver is created and no execute() is invoked; and
\* loading either fails before Bot.run, or gave the Bot one action for
\* every record.
C35_ConfigErrorsBeforeRun ==
  loadOp.op = "runner" =>
    /\ loadOp.invalid => ~loadOp.ok
    /\ ~loadOp.ok =>
          /\ bpc = "created" /\ driver = "none" /\ setupDone = "none"
          /\ started = <<>> /\ actions = <<>>
          /\ cpc = "exit" /\ exit_status = 1
    /\ loadOp.ok => Len(actions) = loadOp.n

\* a configuration whose second record lacks its url was refused, and one
\* without fault is being run
C35_Witness ==
  /\ loadOp.op = "runner"
  /\ loadOp.source = "yaml"
  /\ loadOp.records = <<[type |-> "click", selector |-> "#b"], [type |-> "navigate"]>>
  /\ loadOp.invalid
  /\ ~loadOp.ok
  /\ cpc = "exit"

C35_WitnessRun ==
  /\ loadOp.op = "runner"
  /\ loadOp.ok
  /\ loadOp.n = 2
  /\ bpc = "done"
  /\ ret = "True"

\* ---------------------------------------------------------------- C36
\* C36: Bot.run of a Bot without actions, when the driver could be created,
\* creates the driver and quits it, invokes no execute(), and returns True
\* with overall_success = True, total_actions = 0 and success_rate = 0.
C36_EmptyWorkflow ==
  (bpc = "done" /\ Len(actions) = 0 /\ setupDone = "ok") =>
    /\ ret = "True"
    /\ ~raised
    /\ teardowns = 1 /\ quits = 1
    /\ outcomes = <<>> /\ started = <<>>
    /\ bm.overall_success
    /\ bm.total_actions = 0
    /\ bm.action_metrics = <<>>
    /\ success_rate(bm.successful_actions, bm.total_actions) = 0

C36_Witness ==
  /\ bpc = "done"
  /\ Len(actions) = 0
  /\ setupDone = "ok"
  /\ driver = "closed"
  /\ ret = "True"

\* ---------------------------------------------------------------- C37
\* C37: a `load` that failed leaves self.actions, self.bot_config and
\* self.config_file as they were before the command.
C37_FailedLoadKeepsState ==
  (shellOp.op = "load" /\ shellOp.failed) => shell = shellOp.before

\* ---------------------------------------------------------------- C38
\* C38: the wait reports a file matching expected_filename whenever one of
\* its passes before the timeout found a new matching file and no temporary
\* file, whatever other new files there are; it reports None only if no
\* pass found one.
C38_MatchingFileFound ==
  dl.pc = "done" =>
    /\ dl.seen => (dl.result # "None" /\ fnmatch(dl.result))
    /\ dl.result = "None" => ~dl.seen

\* ---------------------------------------------------------------- C39
\* C39: save_actions_to_yaml writes one record per action, in the order of
\* the list; the record at position k has the fields of the action at
\* position k and, as its type, the friendly name registered for that
\* action's class, also when several actions of the list are equal.
C39_SavedInOrder ==
  loadOp.op = "save_and_load" =>
    /\ Len(loadOp.saved) = Len(loadOp.actions)
    /\ \A k \in 1..Len(loadOp.actions) :
          LET a == loadOp.actions[k]
              d == loadOp.saved[k]
          IN /\ d["type"] \in DOMAIN ACTION_REGISTRY
             /\ ACTION_REGISTRY[d["type"]] = a.variant
             /\ DOMAIN d = {"type"} \cup DOMAIN a.fields
             /\ \A f \in DOMAIN a.fields : d[f] = a.fields[f]

\* two equal actions followed in the list, both saved as `navigate`
C39_Witness ==
  /\ loadOp.op = "save_and_load"
  /\ Len(loadOp.actions) = 2
  /\ loadOp.actions[1] = loadOp.actions[2]
  /\ loadOp.actions[1].variant = "NavigateAction"
  /\ loadOp.saved[1]["type"] = "navigate"
  /\ loadOp.saved[2]["type"] = "navigate"

====
